---------------------------- MODULE Spec2Model ----------------------------
(***************************************************************************)
(* Model of hirei_tokuhyou_juni.py: the batch driver (__main__), the       *)
(* per-document pipeline process_xml_file, extract_content_from_xml with   *)
(* its ordered encoding attempts, and the report writer                    *)
(* write_df_to_excel_with_formatting.                                      *)
(*                                                                         *)
(* Text is a sequence of Unicode code points, a file is a sequence of      *)
(* bytes.  Decoding, tag search, glyph normalisation, csv parsing, the     *)
(* candidate-code regular expression and numeric coercion are computed on  *)
(* those sequences the way the Python code and the libraries it calls      *)
(* compute them.                                                           *)
(***************************************************************************)
EXTENDS Integers, Sequences, FiniteSets, TLC

(***************************************************************************)
(* Literal strings of the program, as code points.                         *)
(***************************************************************************)
\* '順位' (line 344)
SENTINEL ==
  <<38918, 20301>>

\* '政党名／候補者名' (lines 354, 258)
NAME_COL ==
  <<25919, 20826, 21517, 65295, 20505, 35036, 32773, 21517>>

\* '政党コード／人物番号'
COL_CODE ==
  <<25919, 20826, 12467, 12540, 12489, 65295, 20154, 29289, 30058, 21495>>

\* '当落マーク'
COL_MARK ==
  <<24403, 33853, 12510, 12540, 12463>>

\* '党派コード'
COL_PARTY_CODE ==
  <<20826, 27966, 12467, 12540, 12489>>

\* '党派名'
COL_PARTY ==
  <<20826, 27966, 21517>>

\* '身分'
COL_STATUS ==
  <<36523, 20998>>

\* '候補者氏名'
COL_FULLNAME ==
  <<20505, 35036, 32773, 27663, 21517>>

\* '特定枠'
COL_SLOT ==
  <<29305, 23450, 26528>>

\* '合 計'
COL_TOTAL ==
  <<21512, 32, 35336>>

\* '比例代表候補者得票順' (line 407)
MARKER ==
  <<27604, 20363, 20195, 34920, 20505, 35036, 32773, 24471, 31080, 38918>>

\* '.xlsx'
SUFFIX_XLSX ==
  <<46, 120, 108, 115, 120>>

\* '当'
SUFFIX_TOU ==
  <<24403>>

\* '落'
SUFFIX_RAKU ==
  <<33853>>

\* '当選者リスト'
SHEET_TOU ==
  <<24403, 36984, 32773, 12522, 12473, 12488>>

\* '落選者リスト'
SHEET_RAKU ==
  <<33853, 36984, 32773, 12522, 12473, 12488>>

\* the character class of sanitize_filename: \ / * ? : " < > |
UNSAFE_CHARS ==
  <<92, 47, 42, 63, 58, 34, 60, 62, 124>>

\* '.xml'
EXT_XML ==
  <<46, 120, 109, 108>>

\* tag name InHeadLine
TAG_InHeadLine ==
  <<73, 110, 72, 101, 97, 100, 76, 105, 110, 101>>

\* tag name HeadLine
TAG_HeadLine ==
  <<72, 101, 97, 100, 76, 105, 110, 101>>

\* tag name DeliveryHeadline1
TAG_DeliveryHeadline1 ==
  <<68, 101, 108, 105, 118, 101, 114, 121, 72, 101, 97, 100, 108, 105, 110,
    101, 49>>

\* tag name CsvData
TAG_CsvData ==
  <<67, 115, 118, 68, 97, 116, 97>>

\* tag name Sentence
TAG_Sentence ==
  <<83, 101, 110, 116, 101, 110, 99, 101>>

\* tag name InData
TAG_InData ==
  <<73, 110, 68, 97, 116, 97>>

\* csv.field_size_limit(): the most characters a field of the csv body may
\* hold (line 337).
field_size_limit == 131072

(***************************************************************************)
(* The modelled feeds: headlines and csv lines, as code points.            *)
(***************************************************************************)
\* headline with the marker and a ':':  比例代表候補者得票順:A
HL_A ==
  <<27604, 20363, 20195, 34920, 20505, 35036, 32773, 24471, 31080, 38918,
    58, 65>>

\* headline without the marker, with a '/':  候補者得票順/B
HL_B ==
  <<20505, 35036, 32773, 24471, 31080, 38918, 47, 66>>

\* headline of white space only:   　
HL_BLANK ==
  <<32, 12288>>

\* header line of the end-to-end scenario:  順位,,政党名／候補者名,当落マーク,党派コード,党派名,身分,合 計
H1 ==
  <<38918, 20301, 44, 44, 25919, 20826, 21517, 65295, 20505, 35036, 32773,
    21517, 44, 24403, 33853, 12510, 12540, 12463, 44, 20826, 27966, 12467,
    12540, 12489, 44, 20826, 27966, 21517, 44, 36523, 20998, 44, 21512, 32,
    35336>>

\* header line with padded labels, the name column fourth, no party-code column:  　順位 ,政党コード／人物番号,当落マーク,政党名／候補者名,合 計
H2 ==
  <<12288, 38918, 20301, 32, 44, 25919, 20826, 12467, 12540, 12489, 65295,
    20154, 29289, 30058, 21495, 44, 24403, 33853, 12510, 12540, 12463, 44,
    25919, 20826, 21517, 65295, 20505, 35036, 32773, 21517, 44, 21512, 32,
    35336>>

\* a title line before the header:  テスト県 開票
N0 ==
  <<12486, 12473, 12488, 30476, 32, 38283, 31080>>

\* winner; the unquoted 1,234 makes nine fields:  1,00012345,山田太郎,当,01,テスト党,現,1,234
L1 ==
  <<49, 44, 48, 48, 48, 49, 50, 51, 52, 53, 44, 23665, 30000, 22826, 37070,
    44, 24403, 44, 48, 49, 44, 12486, 12473, 12488, 20826, 44, 29694, 44,
    49, 44, 50, 51, 52>>

\* loser, written with full-width digits and commas:  ２，０００６７８９０，佐藤花子,,01,テスト党,新,500
L2 ==
  <<65298, 65292, 65296, 65296, 65296, 65302, 65303, 65304, 65305, 65296,
    65292, 20304, 34276, 33457, 23376, 44, 44, 48, 49, 44, 12486, 12473,
    12488, 20826, 44, 26032, 44, 53, 48, 48>>

\* the same loser in half-width, as in the end-to-end scenario:  2,00067890,佐藤花子,,01,テスト党,新,500
L2E ==
  <<50, 44, 48, 48, 48, 54, 55, 56, 57, 48, 44, 20304, 34276, 33457, 23376,
    44, 44, 48, 49, 44, 12486, 12473, 12488, 20826, 44, 26032, 44, 53, 48,
    48>>

\* party aggregate row: no person code:  ,,テスト党 合計,,01,テスト党,,1734
L3 ==
  <<44, 44, 12486, 12473, 12488, 20826, 32, 21512, 35336, 44, 44, 48, 49,
    44, 12486, 12473, 12488, 20826, 44, 44, 49, 55, 51, 52>>

\* three-digit code:  3,123,鈴木一,当,01,テスト党,新,20
L5 ==
  <<51, 44, 49, 50, 51, 44, 37428, 26408, 19968, 44, 24403, 44, 48, 49, 44,
    12486, 12473, 12488, 20826, 44, 26032, 44, 50, 48>>

\* name of white space only, valid code:  4,00011111,　 ,当,01,テスト党,新,7
L6 ==
  <<52, 44, 48, 48, 48, 49, 49, 49, 49, 49, 44, 12288, 32, 44, 24403, 44,
    48, 49, 44, 12486, 12473, 12488, 20826, 44, 26032, 44, 55>>

\* code with trailing letter, no party code, quoted "1,234":  5,1234x,田中,,,,元,"1,234"
L7 ==
  <<53, 44, 49, 50, 51, 52, 120, 44, 30000, 20013, 44, 44, 44, 44, 20803,
    44, 34, 49, 44, 50, 51, 52, 34>>

\* five fields: fits H2:  6,00033333,当,太郎,70
L8 ==
  <<54, 44, 48, 48, 48, 51, 51, 51, 51, 51, 44, 24403, 44, 22826, 37070,
    44, 55, 48>>

\* header line that names the name column twice:  順位,政党名／候補者名,政党名／候補者名,当落マーク,党派コード,合 計
H3 ==
  <<38918, 20301, 44, 25919, 20826, 21517, 65295, 20505, 35036, 32773, 21517,
    44, 25919, 20826, 21517, 65295, 20505, 35036, 32773, 21517, 44, 24403,
    33853, 12510, 12540, 12463, 44, 20826, 27966, 12467, 12540, 12489, 44,
    21512, 32, 35336>>

\* loser under H3:  1,12345,m,,01,5
L9 ==
  <<49, 44, 49, 50, 51, 52, 53, 44, 109, 44, 44, 48, 49, 44, 53>>

\* code in Arabic-Indic digits:  7,٠١٢٣٤,田中,,01,テスト党,新,9
LA ==
  <<55, 44, 1632, 1633, 1634, 1635, 1636, 44, 30000, 20013, 44, 44, 48, 49,
    44, 12486, 12473, 12488, 20826, 44, 26032, 44, 57>>

\* a body whose header names the total column twice and whose name holds the
\* character U+0000 (written ^@ here):
\*   順位,政党コード／人物番号,政党名／候補者名,合 計,合 計
\*   1,12345,a^@b,2,3
B_TOTALS ==
  <<38918, 20301, 44, 25919, 20826, 12467, 12540, 12489, 65295, 20154, 29289,
    30058, 21495, 44, 25919, 20826, 21517, 65295, 20505, 35036, 32773, 21517,
    44, 21512, 32, 35336, 44, 21512, 32, 35336, 10, 49, 44, 49, 50, 51, 52,
    53, 44, 97, 0, 98, 44, 50, 44, 51>>

\* a line of one field with one character more than the csv reader takes:
\* 131073 times x
LONG_LINE == SubSeq([i \in 1..(field_size_limit + 1) |-> 120], 1, field_size_limit + 1)

\* rank as a power of ten, total infinite:  1e1,12345,田中,,01,テスト党,新,inf
LC ==
  <<49, 101, 49, 44, 49, 50, 51, 52, 53, 44, 30000, 20013, 44, 44, 48, 49,
    44, 12486, 12473, 12488, 20826, 44, 26032, 44, 105, 110, 102>>

\* rank beyond the 64-bit integers, total that rounds up to the next double:
\*   1e19,12345,田中,当,01,テスト党,新,1.9999999999999999
LD ==
  <<49, 101, 49, 57, 44, 49, 50, 51, 52, 53, 44, 30000, 20013, 44, 24403, 44,
    48, 49, 44, 12486, 12473, 12488, 20826, 44, 26032, 44, 49, 46, 57, 57, 57,
    57, 57, 57, 57, 57, 57, 57, 57, 57, 57, 57, 57, 57>>

\* a body that is only the inner marker
JUNK_OPEN ==
  <<60, 73, 110, 68, 97, 116, 97, 62, 120>>


(***************************************************************************)
(* The double-byte tables of the 'sjis' and 'cp932' codecs.  A row holds    *)
(* the code points of one lead byte for the trail bytes 40..FC in order;    *)
(* 0 stands for a pair that is no character.                               *)
(***************************************************************************)
\* 'sjis': the rows of the lead bytes 81..9F and E0..EA.
JisRows ==
  <<
    <<
      12288, 12289, 12290, 65292, 65294, 12539, 65306, 65307, 65311, 65281, 12443, 12444, 180, 65344, 168, 65342,
      65507, 65343, 12541, 12542, 12445, 12446, 12291, 20189, 12293, 12294, 12295, 12540, 8213, 8208, 65295, 65340,
      12316, 8214, 65372, 8230, 8229, 8216, 8217, 8220, 8221, 65288, 65289, 12308, 12309, 65339, 65341, 65371,
      65373, 12296, 12297, 12298, 12299, 12300, 12301, 12302, 12303, 12304, 12305, 65291, 8722, 177, 215, 0,
      247, 65309, 8800, 65308, 65310, 8806, 8807, 8734, 8756, 9794, 9792, 176, 8242, 8243, 8451, 65509,
      65284, 162, 163, 65285, 65283, 65286, 65290, 65312, 167, 9734, 9733, 9675, 9679, 9678, 9671, 9670,
      9633, 9632, 9651, 9650, 9661, 9660, 8251, 12306, 8594, 8592, 8593, 8595, 12307, 0, 0, 0,
      0, 0, 0, 0, 0, 0, 0, 0, 8712, 8715, 8838, 8839, 8834, 8835, 8746, 8745,
      0, 0, 0, 0, 0, 0, 0, 0, 8743, 8744, 172, 8658, 8660, 8704, 8707, 0,
      0, 0, 0, 0, 0, 0, 0, 0, 0, 0, 8736, 8869, 8978, 8706, 8711, 8801,
      8786, 8810, 8811, 8730, 8765, 8733, 8757, 8747, 8748, 0, 0, 0, 0, 0, 0, 0,
      8491, 8240, 9839, 9837, 9834, 8224, 8225, 182, 0, 0, 0, 0, 9711 >>,
    <<
      0, 0, 0, 0, 0, 0, 0, 0, 0, 0, 0, 0, 0, 0, 0, 65296,
      65297, 65298, 65299, 65300, 65301, 65302, 65303, 65304, 65305, 0, 0, 0, 0, 0, 0, 0,
      65313, 65314, 65315, 65316, 65317, 65318, 65319, 65320, 65321, 65322, 65323, 65324, 65325, 65326, 65327, 65328,
      65329, 65330, 65331, 65332, 65333, 65334, 65335, 65336, 65337, 65338, 0, 0, 0, 0, 0, 0,
      0, 65345, 65346, 65347, 65348, 65349, 65350, 65351, 65352, 65353, 65354, 65355, 65356, 65357, 65358, 65359,
      65360, 65361, 65362, 65363, 65364, 65365, 65366, 65367, 65368, 65369, 65370, 0, 0, 0, 0, 12353,
      12354, 12355, 12356, 12357, 12358, 12359, 12360, 12361, 12362, 12363, 12364, 12365, 12366, 12367, 12368, 12369,
      12370, 12371, 12372, 12373, 12374, 12375, 12376, 12377, 12378, 12379, 12380, 12381, 12382, 12383, 12384, 12385,
      12386, 12387, 12388, 12389, 12390, 12391, 12392, 12393, 12394, 12395, 12396, 12397, 12398, 12399, 12400, 12401,
      12402, 12403, 12404, 12405, 12406, 12407, 12408, 12409, 12410, 12411, 12412, 12413, 12414, 12415, 12416, 12417,
      12418, 12419, 12420, 12421, 12422, 12423, 12424, 12425, 12426, 12427, 12428, 12429, 12430, 12431, 12432, 12433,
      12434, 12435, 0, 0, 0, 0, 0, 0, 0, 0, 0, 0, 0 >>,
    <<
      12449, 12450, 12451, 12452, 12453, 12454, 12455, 12456, 12457, 12458, 12459, 12460, 12461, 12462, 12463, 12464,
      12465, 12466, 12467, 12468, 12469, 12470, 12471, 12472, 12473, 12474, 12475, 12476, 12477, 12478, 12479, 12480,
      12481, 12482, 12483, 12484, 12485, 12486, 12487, 12488, 12489, 12490, 12491, 12492, 12493, 12494, 12495, 12496,
      12497, 12498, 12499, 12500, 12501, 12502, 12503, 12504, 12505, 12506, 12507, 12508, 12509, 12510, 12511, 0,
      12512, 12513, 12514, 12515, 12516, 12517, 12518, 12519, 12520, 12521, 12522, 12523, 12524, 12525, 12526, 12527,
      12528, 12529, 12530, 12531, 12532, 12533, 12534, 0, 0, 0, 0, 0, 0, 0, 0, 913,
      914, 915, 916, 917, 918, 919, 920, 921, 922, 923, 924, 925, 926, 927, 928, 929,
      931, 932, 933, 934, 935, 936, 937, 0, 0, 0, 0, 0, 0, 0, 0, 945,
      946, 947, 948, 949, 950, 951, 952, 953, 954, 955, 956, 957, 958, 959, 960, 961,
      963, 964, 965, 966, 967, 968, 969, 0, 0, 0, 0, 0, 0, 0, 0, 0,
      0, 0, 0, 0, 0, 0, 0, 0, 0, 0, 0, 0, 0, 0, 0, 0,
      0, 0, 0, 0, 0, 0, 0, 0, 0, 0, 0, 0, 0 >>,
    <<
      1040, 1041, 1042, 1043, 1044, 1045, 1025, 1046, 1047, 1048, 1049, 1050, 1051, 1052, 1053, 1054,
      1055, 1056, 1057, 1058, 1059, 1060, 1061, 1062, 1063, 1064, 1065, 1066, 1067, 1068, 1069, 1070,
      1071, 0, 0, 0, 0, 0, 0, 0, 0, 0, 0, 0, 0, 0, 0, 0,
      1072, 1073, 1074, 1075, 1076, 1077, 1105, 1078, 1079, 1080, 1081, 1082, 1083, 1084, 1085, 0,
      1086, 1087, 1088, 1089, 1090, 1091, 1092, 1093, 1094, 1095, 1096, 1097, 1098, 1099, 1100, 1101,
      1102, 1103, 0, 0, 0, 0, 0, 0, 0, 0, 0, 0, 0, 0, 0, 9472,
      9474, 9484, 9488, 9496, 9492, 9500, 9516, 9508, 9524, 9532, 9473, 9475, 9487, 9491, 9499, 9495,
      9507, 9523, 9515, 9531, 9547, 9504, 9519, 9512, 9527, 9535, 9501, 9520, 9509, 9528, 9538, 0,
      0, 0, 0, 0, 0, 0, 0, 0, 0, 0, 0, 0, 0, 0, 0, 0,
      0, 0, 0, 0, 0, 0, 0, 0, 0, 0, 0, 0, 0, 0, 0, 0,
      0, 0, 0, 0, 0, 0, 0, 0, 0, 0, 0, 0, 0, 0, 0, 0,
      0, 0, 0, 0, 0, 0, 0, 0, 0, 0, 0, 0, 0 >>,
    <<
      0, 0, 0, 0, 0, 0, 0, 0, 0, 0, 0, 0, 0, 0, 0, 0,
      0, 0, 0, 0, 0, 0, 0, 0, 0, 0, 0, 0, 0, 0, 0, 0,
      0, 0, 0, 0, 0, 0, 0, 0, 0, 0, 0, 0, 0, 0, 0, 0,
      0, 0, 0, 0, 0, 0, 0, 0, 0, 0, 0, 0, 0, 0, 0, 0,
      0, 0, 0, 0, 0, 0, 0, 0, 0, 0, 0, 0, 0, 0, 0, 0,
      0, 0, 0, 0, 0, 0, 0, 0, 0, 0, 0, 0, 0, 0, 0, 0,
      0, 0, 0, 0, 0, 0, 0, 0, 0, 0, 0, 0, 0, 0, 0, 0,
      0, 0, 0, 0, 0, 0, 0, 0, 0, 0, 0, 0, 0, 0, 0, 0,
      0, 0, 0, 0, 0, 0, 0, 0, 0, 0, 0, 0, 0, 0, 0, 0,
      0, 0, 0, 0, 0, 0, 0, 0, 0, 0, 0, 0, 0, 0, 0, 0,
      0, 0, 0, 0, 0, 0, 0, 0, 0, 0, 0, 0, 0, 0, 0, 0,
      0, 0, 0, 0, 0, 0, 0, 0, 0, 0, 0, 0, 0 >>,
    <<
      0, 0, 0, 0, 0, 0, 0, 0, 0, 0, 0, 0, 0, 0, 0, 0,
      0, 0, 0, 0, 0, 0, 0, 0, 0, 0, 0, 0, 0, 0, 0, 0,
      0, 0, 0, 0, 0, 0, 0, 0, 0, 0, 0, 0, 0, 0, 0, 0,
      0, 0, 0, 0, 0, 0, 0, 0, 0, 0, 0, 0, 0, 0, 0, 0,
      0, 0, 0, 0, 0, 0, 0, 0, 0, 0, 0, 0, 0, 0, 0, 0,
      0, 0, 0, 0, 0, 0, 0, 0, 0, 0, 0, 0, 0, 0, 0, 0,
      0, 0, 0, 0, 0, 0, 0, 0, 0, 0, 0, 0, 0, 0, 0, 0,
      0, 0, 0, 0, 0, 0, 0, 0, 0, 0, 0, 0, 0, 0, 0, 0,
      0, 0, 0, 0, 0, 0, 0, 0, 0, 0, 0, 0, 0, 0, 0, 0,
      0, 0, 0, 0, 0, 0, 0, 0, 0, 0, 0, 0, 0, 0, 0, 0,
      0, 0, 0, 0, 0, 0, 0, 0, 0, 0, 0, 0, 0, 0, 0, 0,
      0, 0, 0, 0, 0, 0, 0, 0, 0, 0, 0, 0, 0 >>,
    <<
      0, 0, 0, 0, 0, 0, 0, 0, 0, 0, 0, 0, 0, 0, 0, 0,
      0, 0, 0, 0, 0, 0, 0, 0, 0, 0, 0, 0, 0, 0, 0, 0,
      0, 0, 0, 0, 0, 0, 0, 0, 0, 0, 0, 0, 0, 0, 0, 0,
      0, 0, 0, 0, 0, 0, 0, 0, 0, 0, 0, 0, 0, 0, 0, 0,
      0, 0, 0, 0, 0, 0, 0, 0, 0, 0, 0, 0, 0, 0, 0, 0,
      0, 0, 0, 0, 0, 0, 0, 0, 0, 0, 0, 0, 0, 0, 0, 0,
      0, 0, 0, 0, 0, 0, 0, 0, 0, 0, 0, 0, 0, 0, 0, 0,
      0, 0, 0, 0, 0, 0, 0, 0, 0, 0, 0, 0, 0, 0, 0, 0,
      0, 0, 0, 0, 0, 0, 0, 0, 0, 0, 0, 0, 0, 0, 0, 0,
      0, 0, 0, 0, 0, 0, 0, 0, 0, 0, 0, 0, 0, 0, 0, 0,
      0, 0, 0, 0, 0, 0, 0, 0, 0, 0, 0, 0, 0, 0, 0, 0,
      0, 0, 0, 0, 0, 0, 0, 0, 0, 0, 0, 0, 0 >>,
    <<
      0, 0, 0, 0, 0, 0, 0, 0, 0, 0, 0, 0, 0, 0, 0, 0,
      0, 0, 0, 0, 0, 0, 0, 0, 0, 0, 0, 0, 0, 0, 0, 0,
      0, 0, 0, 0, 0, 0, 0, 0, 0, 0, 0, 0, 0, 0, 0, 0,
      0, 0, 0, 0, 0, 0, 0, 0, 0, 0, 0, 0, 0, 0, 0, 0,
      0, 0, 0, 0, 0, 0, 0, 0, 0, 0, 0, 0, 0, 0, 0, 0,
      0, 0, 0, 0, 0, 0, 0, 0, 0, 0, 0, 0, 0, 0, 0, 20124,
      21782, 23043, 38463, 21696, 24859, 25384, 23030, 36898, 33909, 33564, 31312, 24746, 25569, 28197, 26093, 33894,
      33446, 39925, 26771, 22311, 26017, 25201, 23451, 22992, 34427, 39156, 32098, 32190, 39822, 25110, 31903, 34999,
      23433, 24245, 25353, 26263, 26696, 38343, 38797, 26447, 20197, 20234, 20301, 20381, 20553, 22258, 22839, 22996,
      23041, 23561, 24799, 24847, 24944, 26131, 26885, 28858, 30031, 30064, 31227, 32173, 32239, 32963, 33806, 34915,
      35586, 36949, 36986, 21307, 20117, 20133, 22495, 32946, 37057, 30959, 19968, 22769, 28322, 36920, 31282, 33576,
      33419, 39983, 20801, 21360, 21693, 21729, 22240, 23035, 24341, 39154, 28139, 32996, 34093 >>,
    <<
      38498, 38512, 38560, 38907, 21515, 21491, 23431, 28879, 32701, 36802, 38632, 21359, 40284, 31418, 19985, 30867,
      33276, 28198, 22040, 21764, 27421, 34074, 39995, 23013, 21417, 28006, 29916, 38287, 22082, 20113, 36939, 38642,
      33615, 39180, 21473, 21942, 23344, 24433, 26144, 26355, 26628, 27704, 27891, 27945, 29787, 30408, 31310, 38964,
      33521, 34907, 35424, 37613, 28082, 30123, 30410, 39365, 24742, 35585, 36234, 38322, 27022, 21421, 20870, 0,
      22290, 22576, 22852, 23476, 24310, 24616, 25513, 25588, 27839, 28436, 28814, 28948, 29017, 29141, 29503, 32257,
      33398, 33489, 34199, 36960, 37467, 40219, 22633, 26044, 27738, 29989, 20985, 22830, 22885, 24448, 24540, 25276,
      26106, 27178, 27431, 27572, 29579, 32705, 35158, 40236, 40206, 40644, 23713, 27798, 33659, 20740, 23627, 25014,
      33222, 26742, 29281, 20057, 20474, 21368, 24681, 28201, 31311, 38899, 19979, 21270, 20206, 20309, 20285, 20385,
      20339, 21152, 21487, 22025, 22799, 23233, 23478, 23521, 31185, 26247, 26524, 26550, 27468, 27827, 28779, 29634,
      31117, 31166, 31292, 31623, 33457, 33499, 33540, 33655, 33775, 33747, 34662, 35506, 22057, 36008, 36838, 36942,
      38686, 34442, 20420, 23784, 25105, 29273, 30011, 33253, 33469, 34558, 36032, 38597, 39187, 39381, 20171, 20250,
      35299, 22238, 22602, 22730, 24315, 24555, 24618, 24724, 24674, 25040, 25106, 25296, 25913 >>,
    <<
      39745, 26214, 26800, 28023, 28784, 30028, 30342, 32117, 33445, 34809, 38283, 38542, 35997, 20977, 21182, 22806,
      21683, 23475, 23830, 24936, 27010, 28079, 30861, 33995, 34903, 35442, 37799, 39608, 28012, 39336, 34521, 22435,
      26623, 34510, 37390, 21123, 22151, 21508, 24275, 25313, 25785, 26684, 26680, 27579, 29554, 30906, 31339, 35226,
      35282, 36203, 36611, 37101, 38307, 38548, 38761, 23398, 23731, 27005, 38989, 38990, 25499, 31520, 27179, 0,
      27263, 26806, 39949, 28511, 21106, 21917, 24688, 25324, 27963, 28167, 28369, 33883, 35088, 36676, 19988, 39993,
      21494, 26907, 27194, 38788, 26666, 20828, 31427, 33970, 37340, 37772, 22107, 40232, 26658, 33541, 33841, 31909,
      21000, 33477, 29926, 20094, 20355, 20896, 23506, 21002, 21208, 21223, 24059, 21914, 22570, 23014, 23436, 23448,
      23515, 24178, 24185, 24739, 24863, 24931, 25022, 25563, 25954, 26577, 26707, 26874, 27454, 27475, 27735, 28450,
      28567, 28485, 29872, 29976, 30435, 30475, 31487, 31649, 31777, 32233, 32566, 32752, 32925, 33382, 33694, 35251,
      35532, 36011, 36996, 37969, 38291, 38289, 38306, 38501, 38867, 39208, 33304, 20024, 21547, 23736, 24012, 29609,
      30284, 30524, 23721, 32747, 36107, 38593, 38929, 38996, 39000, 20225, 20238, 21361, 21916, 22120, 22522, 22855,
      23305, 23492, 23696, 24076, 24190, 24524, 25582, 26426, 26071, 26082, 26399, 26827, 26820 >>,
    <<
      27231, 24112, 27589, 27671, 27773, 30079, 31048, 23395, 31232, 32000, 24509, 35215, 35352, 36020, 36215, 36556,
      36637, 39138, 39438, 39740, 20096, 20605, 20736, 22931, 23452, 25135, 25216, 25836, 27450, 29344, 30097, 31047,
      32681, 34811, 35516, 35696, 25516, 33738, 38816, 21513, 21507, 21931, 26708, 27224, 35440, 30759, 26485, 40653,
      21364, 23458, 33050, 34384, 36870, 19992, 20037, 20167, 20241, 21450, 21560, 23470, 24339, 24613, 25937, 0,
      26429, 27714, 27762, 27875, 28792, 29699, 31350, 31406, 31496, 32026, 31998, 32102, 26087, 29275, 21435, 23621,
      24040, 25298, 25312, 25369, 28192, 34394, 35377, 36317, 37624, 28417, 31142, 39770, 20136, 20139, 20140, 20379,
      20384, 20689, 20807, 31478, 20849, 20982, 21332, 21281, 21375, 21483, 21932, 22659, 23777, 24375, 24394, 24623,
      24656, 24685, 25375, 25945, 27211, 27841, 29378, 29421, 30703, 33016, 33029, 33288, 34126, 37111, 37857, 38911,
      39255, 39514, 20208, 20957, 23597, 26241, 26989, 23616, 26354, 26997, 29577, 26704, 31873, 20677, 21220, 22343,
      24062, 37670, 26020, 27427, 27453, 29748, 31105, 31165, 31563, 32202, 33465, 33740, 34943, 35167, 35641, 36817,
      37329, 21535, 37504, 20061, 20534, 21477, 21306, 29399, 29590, 30697, 33510, 36527, 39366, 39368, 39378, 20855,
      24858, 34398, 21936, 31354, 20598, 23507, 36935, 38533, 20018, 27355, 37351, 23633, 23624 >>,
    <<
      25496, 31391, 27795, 38772, 36705, 31402, 29066, 38536, 31874, 26647, 32368, 26705, 37740, 21234, 21531, 34219,
      35347, 32676, 36557, 37089, 21350, 34952, 31041, 20418, 20670, 21009, 20804, 21843, 22317, 29674, 22411, 22865,
      24418, 24452, 24693, 24950, 24935, 25001, 25522, 25658, 25964, 26223, 26690, 28179, 30054, 31293, 31995, 32076,
      32153, 32331, 32619, 33550, 33610, 34509, 35336, 35427, 35686, 36605, 38938, 40335, 33464, 36814, 39912, 0,
      21127, 25119, 25731, 28608, 38553, 26689, 20625, 27424, 27770, 28500, 31348, 32080, 34880, 35363, 26376, 20214,
      20537, 20518, 20581, 20860, 21048, 21091, 21927, 22287, 22533, 23244, 24314, 25010, 25080, 25331, 25458, 26908,
      27177, 29309, 29356, 29486, 30740, 30831, 32121, 30476, 32937, 35211, 35609, 36066, 36562, 36963, 37749, 38522,
      38997, 39443, 40568, 20803, 21407, 21427, 24187, 24358, 28187, 28304, 29572, 29694, 32067, 33335, 35328, 35578,
      38480, 20046, 20491, 21476, 21628, 22266, 22993, 23396, 24049, 24235, 24359, 25144, 25925, 26543, 28246, 29392,
      31946, 34996, 32929, 32993, 33776, 34382, 35463, 36328, 37431, 38599, 39015, 40723, 20116, 20114, 20237, 21320,
      21577, 21566, 23087, 24460, 24481, 24735, 26791, 27278, 29786, 30849, 35486, 35492, 35703, 37264, 20062, 39881,
      20132, 20348, 20399, 20505, 20502, 20809, 20844, 21151, 21177, 21246, 21402, 21475, 21521 >>,
    <<
      21518, 21897, 22353, 22434, 22909, 23380, 23389, 23439, 24037, 24039, 24055, 24184, 24195, 24218, 24247, 24344,
      24658, 24908, 25239, 25304, 25511, 25915, 26114, 26179, 26356, 26477, 26657, 26775, 27083, 27743, 27946, 28009,
      28207, 28317, 30002, 30343, 30828, 31295, 31968, 32005, 32024, 32094, 32177, 32789, 32771, 32943, 32945, 33108,
      33167, 33322, 33618, 34892, 34913, 35611, 36002, 36092, 37066, 37237, 37489, 30783, 37628, 38308, 38477, 0,
      38917, 39321, 39640, 40251, 21083, 21163, 21495, 21512, 22741, 25335, 28640, 35946, 36703, 40633, 20811, 21051,
      21578, 22269, 31296, 37239, 40288, 40658, 29508, 28425, 33136, 29969, 24573, 24794, 39592, 29403, 36796, 27492,
      38915, 20170, 22256, 22372, 22718, 23130, 24680, 25031, 26127, 26118, 26681, 26801, 28151, 30165, 32058, 33390,
      39746, 20123, 20304, 21449, 21766, 23919, 24038, 24046, 26619, 27801, 29811, 30722, 35408, 37782, 35039, 22352,
      24231, 25387, 20661, 20652, 20877, 26368, 21705, 22622, 22971, 23472, 24425, 25165, 25505, 26685, 27507, 28168,
      28797, 37319, 29312, 30741, 30758, 31085, 25998, 32048, 33756, 35009, 36617, 38555, 21092, 22312, 26448, 32618,
      36001, 20916, 22338, 38442, 22586, 27018, 32948, 21682, 23822, 22524, 30869, 40442, 20316, 21066, 21643, 25662,
      26152, 26388, 26613, 31364, 31574, 32034, 37679, 26716, 39853, 31545, 21273, 20874, 21047 >>,
    <<
      23519, 25334, 25774, 25830, 26413, 27578, 34217, 38609, 30352, 39894, 25420, 37638, 39851, 30399, 26194, 19977,
      20632, 21442, 23665, 24808, 25746, 25955, 26719, 29158, 29642, 29987, 31639, 32386, 34453, 35715, 36059, 37240,
      39184, 26028, 26283, 27531, 20181, 20180, 20282, 20351, 21050, 21496, 21490, 21987, 22235, 22763, 22987, 22985,
      23039, 23376, 23629, 24066, 24107, 24535, 24605, 25351, 25903, 23388, 26031, 26045, 26088, 26525, 27490, 0,
      27515, 27663, 29509, 31049, 31169, 31992, 32025, 32043, 32930, 33026, 33267, 35222, 35422, 35433, 35430, 35468,
      35566, 36039, 36060, 38604, 39164, 27503, 20107, 20284, 20365, 20816, 23383, 23546, 24904, 25345, 26178, 27425,
      28363, 27835, 29246, 29885, 30164, 30913, 31034, 32780, 32819, 33258, 33940, 36766, 27728, 40575, 24335, 35672,
      40235, 31482, 36600, 23437, 38635, 19971, 21489, 22519, 22833, 23241, 23460, 24713, 28287, 28422, 30142, 36074,
      23455, 34048, 31712, 20594, 26612, 33437, 23649, 34122, 32286, 33294, 20889, 23556, 25448, 36198, 26012, 29038,
      31038, 32023, 32773, 35613, 36554, 36974, 34503, 37034, 20511, 21242, 23610, 26451, 28796, 29237, 37196, 37320,
      37675, 33509, 23490, 24369, 24825, 20027, 21462, 23432, 25163, 26417, 27530, 29417, 29664, 31278, 33131, 36259,
      37202, 39318, 20754, 21463, 21610, 23551, 25480, 27193, 32172, 38656, 22234, 21454, 21608 >>,
    <<
      23447, 23601, 24030, 20462, 24833, 25342, 27954, 31168, 31179, 32066, 32333, 32722, 33261, 33311, 33936, 34886,
      35186, 35728, 36468, 36655, 36913, 37195, 37228, 38598, 37276, 20160, 20303, 20805, 21313, 24467, 25102, 26580,
      27713, 28171, 29539, 32294, 37325, 37507, 21460, 22809, 23487, 28113, 31069, 32302, 31899, 22654, 29087, 20986,
      34899, 36848, 20426, 23803, 26149, 30636, 31459, 33308, 39423, 20934, 24490, 26092, 26991, 27529, 28147, 0,
      28310, 28516, 30462, 32020, 24033, 36981, 37255, 38918, 20966, 21021, 25152, 26257, 26329, 28186, 24246, 32210,
      32626, 26360, 34223, 34295, 35576, 21161, 21465, 22899, 24207, 24464, 24661, 37604, 38500, 20663, 20767, 21213,
      21280, 21319, 21484, 21736, 21830, 21809, 22039, 22888, 22974, 23100, 23477, 23558, 23567, 23569, 23578, 24196,
      24202, 24288, 24432, 25215, 25220, 25307, 25484, 25463, 26119, 26124, 26157, 26230, 26494, 26786, 27167, 27189,
      27836, 28040, 28169, 28248, 28988, 28966, 29031, 30151, 30465, 30813, 30977, 31077, 31216, 31456, 31505, 31911,
      32057, 32918, 33750, 33931, 34121, 34909, 35059, 35359, 35388, 35412, 35443, 35937, 36062, 37284, 37478, 37758,
      37912, 38556, 38808, 19978, 19976, 19998, 20055, 20887, 21104, 22478, 22580, 22732, 23330, 24120, 24773, 25854,
      26465, 26454, 27972, 29366, 30067, 31331, 33976, 35698, 37304, 37664, 22065, 22516, 39166 >>,
    <<
      25325, 26893, 27542, 29165, 32340, 32887, 33394, 35302, 39135, 34645, 36785, 23611, 20280, 20449, 20405, 21767,
      23072, 23517, 23529, 24515, 24910, 25391, 26032, 26187, 26862, 27035, 28024, 28145, 30003, 30137, 30495, 31070,
      31206, 32051, 33251, 33455, 34218, 35242, 35386, 36523, 36763, 36914, 37341, 38663, 20154, 20161, 20995, 22645,
      22764, 23563, 29978, 23613, 33102, 35338, 36805, 38499, 38765, 31525, 35535, 38920, 37218, 22259, 21416, 0,
      36887, 21561, 22402, 24101, 25512, 27700, 28810, 30561, 31883, 32736, 34928, 36930, 37204, 37648, 37656, 38543,
      29790, 39620, 23815, 23913, 25968, 26530, 36264, 38619, 25454, 26441, 26905, 33733, 38935, 38592, 35070, 28548,
      25722, 23544, 19990, 28716, 30045, 26159, 20932, 21046, 21218, 22995, 24449, 24615, 25104, 25919, 25972, 26143,
      26228, 26866, 26646, 27491, 28165, 29298, 29983, 30427, 31934, 32854, 22768, 35069, 35199, 35488, 35475, 35531,
      36893, 37266, 38738, 38745, 25993, 31246, 33030, 38587, 24109, 24796, 25114, 26021, 26132, 26512, 30707, 31309,
      31821, 32318, 33034, 36012, 36196, 36321, 36447, 30889, 20999, 25305, 25509, 25666, 25240, 35373, 31363, 31680,
      35500, 38634, 32118, 33292, 34633, 20185, 20808, 21315, 21344, 23459, 23554, 23574, 24029, 25126, 25159, 25776,
      26643, 26676, 27849, 27973, 27927, 26579, 28508, 29006, 29053, 26059, 31359, 31661, 32218 >>,
    <<
      32330, 32680, 33146, 33307, 33337, 34214, 35438, 36046, 36341, 36984, 36983, 37549, 37521, 38275, 39854, 21069,
      21892, 28472, 28982, 20840, 31109, 32341, 33203, 31950, 22092, 22609, 23720, 25514, 26366, 26365, 26970, 29401,
      30095, 30094, 30990, 31062, 31199, 31895, 32032, 32068, 34311, 35380, 38459, 36961, 40736, 20711, 21109, 21452,
      21474, 20489, 21930, 22766, 22863, 29245, 23435, 23652, 21277, 24803, 24819, 25436, 25475, 25407, 25531, 0,
      25805, 26089, 26361, 24035, 27085, 27133, 28437, 29157, 20105, 30185, 30456, 31379, 31967, 32207, 32156, 32865,
      33609, 33624, 33900, 33980, 34299, 35013, 36208, 36865, 36973, 37783, 38684, 39442, 20687, 22679, 24974, 33235,
      34101, 36104, 36896, 20419, 20596, 21063, 21363, 24687, 25417, 26463, 28204, 36275, 36895, 20439, 23646, 36042,
      26063, 32154, 21330, 34966, 20854, 25539, 23384, 23403, 23562, 25613, 26449, 36956, 20182, 22810, 22826, 27760,
      35409, 21822, 22549, 22949, 24816, 25171, 26561, 33333, 26965, 38464, 39364, 39464, 20307, 22534, 23550, 32784,
      23729, 24111, 24453, 24608, 24907, 25140, 26367, 27888, 28382, 32974, 33151, 33492, 34955, 36024, 36864, 36910,
      38538, 40667, 39899, 20195, 21488, 22823, 31532, 37261, 38988, 40441, 28381, 28711, 21331, 21828, 23429, 25176,
      25246, 25299, 27810, 28655, 29730, 35351, 37944, 28609, 35582, 33592, 20967, 34552, 21482 >>,
    <<
      21481, 20294, 36948, 36784, 22890, 33073, 24061, 31466, 36799, 26842, 35895, 29432, 40008, 27197, 35504, 20025,
      21336, 22022, 22374, 25285, 25506, 26086, 27470, 28129, 28251, 28845, 30701, 31471, 31658, 32187, 32829, 32966,
      34507, 35477, 37723, 22243, 22727, 24382, 26029, 26262, 27264, 27573, 30007, 35527, 20516, 30693, 22320, 24347,
      24677, 26234, 27744, 30196, 31258, 32622, 33268, 34584, 36933, 39347, 31689, 30044, 31481, 31569, 33988, 0,
      36880, 31209, 31378, 33590, 23265, 30528, 20013, 20210, 23449, 24544, 25277, 26172, 26609, 27880, 34411, 34935,
      35387, 37198, 37619, 39376, 27159, 28710, 29482, 33511, 33879, 36015, 19969, 20806, 20939, 21899, 23541, 24086,
      24115, 24193, 24340, 24373, 24427, 24500, 25074, 25361, 26274, 26397, 28526, 29266, 30010, 30522, 32884, 33081,
      33144, 34678, 35519, 35548, 36229, 36339, 37530, 38263, 38914, 40165, 21189, 25431, 30452, 26389, 27784, 29645,
      36035, 37806, 38515, 27941, 22684, 26894, 27084, 36861, 37786, 30171, 36890, 22618, 26626, 25524, 27131, 20291,
      28460, 26584, 36795, 34086, 32180, 37716, 26943, 28528, 22378, 22775, 23340, 32044, 29226, 21514, 37347, 40372,
      20141, 20302, 20572, 20597, 21059, 35998, 21576, 22564, 23450, 24093, 24213, 24237, 24311, 24351, 24716, 25269,
      25402, 25552, 26799, 27712, 30855, 31118, 31243, 32224, 33351, 35330, 35558, 36420, 36883 >>,
    <<
      37048, 37165, 37336, 40718, 27877, 25688, 25826, 25973, 28404, 30340, 31515, 36969, 37841, 28346, 21746, 24505,
      25764, 36685, 36845, 37444, 20856, 22635, 22825, 23637, 24215, 28155, 32399, 29980, 36028, 36578, 39003, 28857,
      20253, 27583, 28593, 30000, 38651, 20814, 21520, 22581, 22615, 22956, 23648, 24466, 26007, 26460, 28193, 30331,
      33759, 36077, 36884, 37117, 37709, 30757, 30778, 21162, 24230, 22303, 22900, 24594, 20498, 20826, 20908, 0,
      20941, 20992, 21776, 22612, 22616, 22871, 23445, 23798, 23947, 24764, 25237, 25645, 26481, 26691, 26812, 26847,
      30423, 28120, 28271, 28059, 28783, 29128, 24403, 30168, 31095, 31561, 31572, 31570, 31958, 32113, 21040, 33891,
      34153, 34276, 35342, 35588, 35910, 36367, 36867, 36879, 37913, 38518, 38957, 39472, 38360, 20685, 21205, 21516,
      22530, 23566, 24999, 25758, 27934, 30643, 31461, 33012, 33796, 36947, 37509, 23776, 40199, 21311, 24471, 24499,
      28060, 29305, 30563, 31167, 31716, 27602, 29420, 35501, 26627, 27233, 20984, 31361, 26932, 23626, 40182, 33515,
      23493, 37193, 28702, 22136, 23663, 24775, 25958, 27788, 35930, 36929, 38931, 21585, 26311, 37389, 22856, 37027,
      20869, 20045, 20970, 34201, 35598, 28760, 25466, 37707, 26978, 39348, 32260, 30071, 21335, 26976, 36575, 38627,
      27741, 20108, 23612, 24336, 36841, 21250, 36049, 32905, 34425, 24319, 26085, 20083, 20837 >>,
    <<
      22914, 23615, 38894, 20219, 22922, 24525, 35469, 28641, 31152, 31074, 23527, 33905, 29483, 29105, 24180, 24565,
      25467, 25754, 29123, 31896, 20035, 24316, 20043, 22492, 22178, 24745, 28611, 32013, 33021, 33075, 33215, 36786,
      35223, 34468, 24052, 25226, 25773, 35207, 26487, 27874, 27966, 29750, 30772, 23110, 32629, 33453, 39340, 20467,
      24259, 25309, 25490, 25943, 26479, 30403, 29260, 32972, 32954, 36649, 37197, 20493, 22521, 23186, 26757, 0,
      26995, 29028, 29437, 36023, 22770, 36064, 38506, 36889, 34687, 31204, 30695, 33833, 20271, 21093, 21338, 25293,
      26575, 27850, 30333, 31636, 31893, 33334, 34180, 36843, 26333, 28448, 29190, 32283, 33707, 39361, 40614, 20989,
      31665, 30834, 31672, 32903, 31560, 27368, 24161, 32908, 30033, 30048, 20843, 37474, 28300, 30330, 37271, 39658,
      20240, 32624, 25244, 31567, 38309, 40169, 22138, 22617, 34532, 38588, 20276, 21028, 21322, 21453, 21467, 24070,
      25644, 26001, 26495, 27710, 27726, 29256, 29359, 29677, 30036, 32321, 33324, 34281, 36009, 31684, 37318, 29033,
      38930, 39151, 25405, 26217, 30058, 30436, 30928, 34115, 34542, 21290, 21329, 21542, 22915, 24199, 24444, 24754,
      25161, 25209, 25259, 26000, 27604, 27852, 30130, 30382, 30865, 31192, 32203, 32631, 32933, 34987, 35513, 36027,
      36991, 38750, 39131, 27147, 31800, 20633, 23614, 24494, 26503, 27608, 29749, 30473, 32654 >>,
    <<
      40763, 26570, 31255, 21305, 30091, 39661, 24422, 33181, 33777, 32920, 24380, 24517, 30050, 31558, 36924, 26727,
      23019, 23195, 32016, 30334, 35628, 20469, 24426, 27161, 27703, 28418, 29922, 31080, 34920, 35413, 35961, 24287,
      25551, 30149, 31186, 33495, 37672, 37618, 33948, 34541, 39981, 21697, 24428, 25996, 27996, 28693, 36007, 36051,
      38971, 25935, 29942, 19981, 20184, 22496, 22827, 23142, 23500, 20904, 24067, 24220, 24598, 25206, 25975, 0,
      26023, 26222, 28014, 29238, 31526, 33104, 33178, 33433, 35676, 36000, 36070, 36212, 38428, 38468, 20398, 25771,
      27494, 33310, 33889, 34154, 37096, 23553, 26963, 39080, 33914, 34135, 20239, 21103, 24489, 24133, 26381, 31119,
      33145, 35079, 35206, 28149, 24343, 25173, 27832, 20175, 29289, 39826, 20998, 21563, 22132, 22707, 24996, 25198,
      28954, 22894, 31881, 31966, 32027, 38640, 25991, 32862, 19993, 20341, 20853, 22592, 24163, 24179, 24330, 26564,
      20006, 34109, 38281, 38491, 31859, 38913, 20731, 22721, 30294, 30887, 21029, 30629, 34065, 31622, 20559, 22793,
      29255, 31687, 32232, 36794, 36820, 36941, 20415, 21193, 23081, 24321, 38829, 20445, 33303, 37610, 22275, 25429,
      27497, 29995, 35036, 36628, 31298, 21215, 22675, 24917, 25098, 26286, 27597, 31807, 33769, 20515, 20472, 21253,
      21574, 22577, 22857, 23453, 23792, 23791, 23849, 24214, 25265, 25447, 25918, 26041, 26379 >>,
    <<
      27861, 27873, 28921, 30770, 32299, 32990, 33459, 33804, 34028, 34562, 35090, 35370, 35914, 37030, 37586, 39165,
      40179, 40300, 20047, 20129, 20621, 21078, 22346, 22952, 24125, 24536, 24537, 25151, 26292, 26395, 26576, 26834,
      20882, 32033, 32938, 33192, 35584, 35980, 36031, 37502, 38450, 21536, 38956, 21271, 20693, 21340, 22696, 25778,
      26420, 29287, 30566, 31302, 37350, 21187, 27809, 27526, 22528, 24140, 22868, 26412, 32763, 20961, 30406, 0,
      25705, 30952, 39764, 40635, 22475, 22969, 26151, 26522, 27598, 21737, 27097, 24149, 33180, 26517, 39850, 26622,
      40018, 26717, 20134, 20451, 21448, 25273, 26411, 27819, 36804, 20397, 32365, 40639, 19975, 24930, 28288, 28459,
      34067, 21619, 26410, 39749, 24051, 31637, 23724, 23494, 34588, 28234, 34001, 31252, 33032, 22937, 31885, 27665,
      30496, 21209, 22818, 28961, 29279, 30683, 38695, 40289, 26891, 23167, 23064, 20901, 21517, 21629, 26126, 30431,
      36855, 37528, 40180, 23018, 29277, 28357, 20813, 26825, 32191, 32236, 38754, 40634, 25720, 27169, 33538, 22916,
      23391, 27611, 29467, 30450, 32178, 32791, 33945, 20786, 26408, 40665, 30446, 26466, 21247, 39173, 23588, 25147,
      31870, 36016, 21839, 24758, 32011, 38272, 21249, 20063, 20918, 22812, 29242, 32822, 37326, 24357, 30690, 21380,
      24441, 32004, 34220, 35379, 36493, 38742, 26611, 34222, 37971, 24841, 24840, 27833, 30290 >>,
    <<
      35565, 36664, 21807, 20305, 20778, 21191, 21451, 23461, 24189, 24736, 24962, 25558, 26377, 26586, 28263, 28044,
      29494, 29495, 30001, 31056, 35029, 35480, 36938, 37009, 37109, 38596, 34701, 22805, 20104, 20313, 19982, 35465,
      36671, 38928, 20653, 24188, 22934, 23481, 24248, 25562, 25594, 25793, 26332, 26954, 27096, 27915, 28342, 29076,
      29992, 31407, 32650, 32768, 33865, 33993, 35201, 35617, 36362, 36965, 38525, 39178, 24958, 25233, 27442, 0,
      27779, 28020, 32716, 32764, 28096, 32645, 34746, 35064, 26469, 33713, 38972, 38647, 27931, 32097, 33853, 37226,
      20081, 21365, 23888, 27396, 28651, 34253, 34349, 35239, 21033, 21519, 23653, 26446, 26792, 29702, 29827, 30178,
      35023, 35041, 37324, 38626, 38520, 24459, 29575, 31435, 33870, 25504, 30053, 21129, 27969, 28316, 29705, 30041,
      30827, 31890, 38534, 31452, 40845, 20406, 24942, 26053, 34396, 20102, 20142, 20698, 20001, 20940, 23534, 26009,
      26753, 28092, 29471, 30274, 30637, 31260, 31975, 33391, 35538, 36988, 37327, 38517, 38936, 21147, 32209, 20523,
      21400, 26519, 28107, 29136, 29747, 33256, 36650, 38563, 40023, 40607, 29792, 22593, 28057, 32047, 39006, 20196,
      20278, 20363, 20919, 21169, 23994, 24604, 29618, 31036, 33491, 37428, 38583, 38646, 38666, 40599, 40802, 26278,
      27508, 21015, 21155, 28872, 35010, 24265, 24651, 24976, 28451, 29001, 31806, 32244, 32879 >>,
    <<
      34030, 36899, 37676, 21570, 39791, 27347, 28809, 36034, 36335, 38706, 21172, 23105, 24266, 24324, 26391, 27004,
      27028, 28010, 28431, 29282, 29436, 31725, 32769, 32894, 34635, 37070, 20845, 40595, 31108, 32907, 37682, 35542,
      20525, 21644, 35441, 27498, 36036, 33031, 24785, 26528, 40434, 20121, 20120, 39952, 35435, 34241, 34152, 26880,
      28286, 30871, 33109, 0, 0, 0, 0, 0, 0, 0, 0, 0, 0, 0, 0, 0,
      0, 0, 0, 0, 0, 0, 0, 0, 0, 0, 0, 0, 0, 0, 0, 0,
      0, 0, 0, 0, 0, 0, 0, 0, 0, 0, 0, 0, 0, 0, 0, 24332,
      19984, 19989, 20010, 20017, 20022, 20028, 20031, 20034, 20054, 20056, 20098, 20101, 35947, 20106, 33298, 24333,
      20110, 20126, 20127, 20128, 20130, 20144, 20147, 20150, 20174, 20173, 20164, 20166, 20162, 20183, 20190, 20205,
      20191, 20215, 20233, 20314, 20272, 20315, 20317, 20311, 20295, 20342, 20360, 20367, 20376, 20347, 20329, 20336,
      20369, 20335, 20358, 20374, 20760, 20436, 20447, 20430, 20440, 20443, 20433, 20442, 20432, 20452, 20453, 20506,
      20520, 20500, 20522, 20517, 20485, 20252, 20470, 20513, 20521, 20524, 20478, 20463, 20497, 20486, 20547, 20551,
      26371, 20565, 20560, 20552, 20570, 20566, 20588, 20600, 20608, 20634, 20613, 20660, 20658 >>,
    <<
      20681, 20682, 20659, 20674, 20694, 20702, 20709, 20717, 20707, 20718, 20729, 20725, 20745, 20737, 20738, 20758,
      20757, 20756, 20762, 20769, 20794, 20791, 20796, 20795, 20799, 20800, 20818, 20812, 20820, 20834, 31480, 20841,
      20842, 20846, 20864, 20866, 22232, 20876, 20873, 20879, 20881, 20883, 20885, 20886, 20900, 20902, 20898, 20905,
      20906, 20907, 20915, 20913, 20914, 20912, 20917, 20925, 20933, 20937, 20955, 20960, 34389, 20969, 20973, 0,
      20976, 20981, 20990, 20996, 21003, 21012, 21006, 21031, 21034, 21038, 21043, 21049, 21071, 21060, 21067, 21068,
      21086, 21076, 21098, 21108, 21097, 21107, 21119, 21117, 21133, 21140, 21138, 21105, 21128, 21137, 36776, 36775,
      21164, 21165, 21180, 21173, 21185, 21197, 21207, 21214, 21219, 21222, 39149, 21216, 21235, 21237, 21240, 21241,
      21254, 21256, 30008, 21261, 21264, 21263, 21269, 21274, 21283, 21295, 21297, 21299, 21304, 21312, 21318, 21317,
      19991, 21321, 21325, 20950, 21342, 21353, 21358, 22808, 21371, 21367, 21378, 21398, 21408, 21414, 21413, 21422,
      21424, 21430, 21443, 31762, 38617, 21471, 26364, 29166, 21486, 21480, 21485, 21498, 21505, 21565, 21568, 21548,
      21549, 21564, 21550, 21558, 21545, 21533, 21582, 21647, 21621, 21646, 21599, 21617, 21623, 21616, 21650, 21627,
      21632, 21622, 21636, 21648, 21638, 21703, 21666, 21688, 21669, 21676, 21700, 21704, 21672 >>,
    <<
      21675, 21698, 21668, 21694, 21692, 21720, 21733, 21734, 21775, 21780, 21757, 21742, 21741, 21754, 21730, 21817,
      21824, 21859, 21836, 21806, 21852, 21829, 21846, 21847, 21816, 21811, 21853, 21913, 21888, 21679, 21898, 21919,
      21883, 21886, 21912, 21918, 21934, 21884, 21891, 21929, 21895, 21928, 21978, 21957, 21983, 21956, 21980, 21988,
      21972, 22036, 22007, 22038, 22014, 22013, 22043, 22009, 22094, 22096, 29151, 22068, 22070, 22066, 22072, 0,
      22123, 22116, 22063, 22124, 22122, 22150, 22144, 22154, 22176, 22164, 22159, 22181, 22190, 22198, 22196, 22210,
      22204, 22209, 22211, 22208, 22216, 22222, 22225, 22227, 22231, 22254, 22265, 22272, 22271, 22276, 22281, 22280,
      22283, 22285, 22291, 22296, 22294, 21959, 22300, 22310, 22327, 22328, 22350, 22331, 22336, 22351, 22377, 22464,
      22408, 22369, 22399, 22409, 22419, 22432, 22451, 22436, 22442, 22448, 22467, 22470, 22484, 22482, 22483, 22538,
      22486, 22499, 22539, 22553, 22557, 22642, 22561, 22626, 22603, 22640, 27584, 22610, 22589, 22649, 22661, 22713,
      22687, 22699, 22714, 22750, 22715, 22712, 22702, 22725, 22739, 22737, 22743, 22745, 22744, 22757, 22748, 22756,
      22751, 22767, 22778, 22777, 22779, 22780, 22781, 22786, 22794, 22800, 22811, 26790, 22821, 22828, 22829, 22834,
      22840, 22846, 31442, 22869, 22864, 22862, 22874, 22872, 22882, 22880, 22887, 22892, 22889 >>,
    <<
      22904, 22913, 22941, 20318, 20395, 22947, 22962, 22982, 23016, 23004, 22925, 23001, 23002, 23077, 23071, 23057,
      23068, 23049, 23066, 23104, 23148, 23113, 23093, 23094, 23138, 23146, 23194, 23228, 23230, 23243, 23234, 23229,
      23267, 23255, 23270, 23273, 23254, 23290, 23291, 23308, 23307, 23318, 23346, 23248, 23338, 23350, 23358, 23363,
      23365, 23360, 23377, 23381, 23386, 23387, 23397, 23401, 23408, 23411, 23413, 23416, 25992, 23418, 23424, 0,
      23427, 23462, 23480, 23491, 23495, 23497, 23508, 23504, 23524, 23526, 23522, 23518, 23525, 23531, 23536, 23542,
      23539, 23557, 23559, 23560, 23565, 23571, 23584, 23586, 23592, 23608, 23609, 23617, 23622, 23630, 23635, 23632,
      23631, 23409, 23660, 23662, 20066, 23670, 23673, 23692, 23697, 23700, 22939, 23723, 23739, 23734, 23740, 23735,
      23749, 23742, 23751, 23769, 23785, 23805, 23802, 23789, 23948, 23786, 23819, 23829, 23831, 23900, 23839, 23835,
      23825, 23828, 23842, 23834, 23833, 23832, 23884, 23890, 23886, 23883, 23916, 23923, 23926, 23943, 23940, 23938,
      23970, 23965, 23980, 23982, 23997, 23952, 23991, 23996, 24009, 24013, 24019, 24018, 24022, 24027, 24043, 24050,
      24053, 24075, 24090, 24089, 24081, 24091, 24118, 24119, 24132, 24131, 24128, 24142, 24151, 24148, 24159, 24162,
      24164, 24135, 24181, 24182, 24186, 40636, 24191, 24224, 24257, 24258, 24264, 24272, 24271 >>,
    <<
      24278, 24291, 24285, 24282, 24283, 24290, 24289, 24296, 24297, 24300, 24305, 24307, 24304, 24308, 24312, 24318,
      24323, 24329, 24413, 24412, 24331, 24337, 24342, 24361, 24365, 24376, 24385, 24392, 24396, 24398, 24367, 24401,
      24406, 24407, 24409, 24417, 24429, 24435, 24439, 24451, 24450, 24447, 24458, 24456, 24465, 24455, 24478, 24473,
      24472, 24480, 24488, 24493, 24508, 24534, 24571, 24548, 24568, 24561, 24541, 24755, 24575, 24609, 24672, 0,
      24601, 24592, 24617, 24590, 24625, 24603, 24597, 24619, 24614, 24591, 24634, 24666, 24641, 24682, 24695, 24671,
      24650, 24646, 24653, 24675, 24643, 24676, 24642, 24684, 24683, 24665, 24705, 24717, 24807, 24707, 24730, 24708,
      24731, 24726, 24727, 24722, 24743, 24715, 24801, 24760, 24800, 24787, 24756, 24560, 24765, 24774, 24757, 24792,
      24909, 24853, 24838, 24822, 24823, 24832, 24820, 24826, 24835, 24865, 24827, 24817, 24845, 24846, 24903, 24894,
      24872, 24871, 24906, 24895, 24892, 24876, 24884, 24893, 24898, 24900, 24947, 24951, 24920, 24921, 24922, 24939,
      24948, 24943, 24933, 24945, 24927, 24925, 24915, 24949, 24985, 24982, 24967, 25004, 24980, 24986, 24970, 24977,
      25003, 25006, 25036, 25034, 25033, 25079, 25032, 25027, 25030, 25018, 25035, 32633, 25037, 25062, 25059, 25078,
      25082, 25076, 25087, 25085, 25084, 25086, 25088, 25096, 25097, 25101, 25100, 25108, 25115 >>,
    <<
      25118, 25121, 25130, 25134, 25136, 25138, 25139, 25153, 25166, 25182, 25187, 25179, 25184, 25192, 25212, 25218,
      25225, 25214, 25234, 25235, 25238, 25300, 25219, 25236, 25303, 25297, 25275, 25295, 25343, 25286, 25812, 25288,
      25308, 25292, 25290, 25282, 25287, 25243, 25289, 25356, 25326, 25329, 25383, 25346, 25352, 25327, 25333, 25424,
      25406, 25421, 25628, 25423, 25494, 25486, 25472, 25515, 25462, 25507, 25487, 25481, 25503, 25525, 25451, 0,
      25449, 25534, 25577, 25536, 25542, 25571, 25545, 25554, 25590, 25540, 25622, 25652, 25606, 25619, 25638, 25654,
      25885, 25623, 25640, 25615, 25703, 25711, 25718, 25678, 25898, 25749, 25747, 25765, 25769, 25736, 25788, 25818,
      25810, 25797, 25799, 25787, 25816, 25794, 25841, 25831, 33289, 25824, 25825, 25260, 25827, 25839, 25900, 25846,
      25844, 25842, 25850, 25856, 25853, 25880, 25884, 25861, 25892, 25891, 25899, 25908, 25909, 25911, 25910, 25912,
      30027, 25928, 25942, 25941, 25933, 25944, 25950, 25949, 25970, 25976, 25986, 25987, 35722, 26011, 26015, 26027,
      26039, 26051, 26054, 26049, 26052, 26060, 26066, 26075, 26073, 26080, 26081, 26097, 26482, 26122, 26115, 26107,
      26483, 26165, 26166, 26164, 26140, 26191, 26180, 26185, 26177, 26206, 26205, 26212, 26215, 26216, 26207, 26210,
      26224, 26243, 26248, 26254, 26249, 26244, 26264, 26269, 26305, 26297, 26313, 26302, 26300 >>,
    <<
      26308, 26296, 26326, 26330, 26336, 26175, 26342, 26345, 26352, 26357, 26359, 26383, 26390, 26398, 26406, 26407,
      38712, 26414, 26431, 26422, 26433, 26424, 26423, 26438, 26462, 26464, 26457, 26467, 26468, 26505, 26480, 26537,
      26492, 26474, 26508, 26507, 26534, 26529, 26501, 26551, 26607, 26548, 26604, 26547, 26601, 26552, 26596, 26590,
      26589, 26594, 26606, 26553, 26574, 26566, 26599, 27292, 26654, 26694, 26665, 26688, 26701, 26674, 26702, 0,
      26803, 26667, 26713, 26723, 26743, 26751, 26783, 26767, 26797, 26772, 26781, 26779, 26755, 27310, 26809, 26740,
      26805, 26784, 26810, 26895, 26765, 26750, 26881, 26826, 26888, 26840, 26914, 26918, 26849, 26892, 26829, 26836,
      26855, 26837, 26934, 26898, 26884, 26839, 26851, 26917, 26873, 26848, 26863, 26920, 26922, 26906, 26915, 26913,
      26822, 27001, 26999, 26972, 27000, 26987, 26964, 27006, 26990, 26937, 26996, 26941, 26969, 26928, 26977, 26974,
      26973, 27009, 26986, 27058, 27054, 27088, 27071, 27073, 27091, 27070, 27086, 23528, 27082, 27101, 27067, 27075,
      27047, 27182, 27025, 27040, 27036, 27029, 27060, 27102, 27112, 27138, 27163, 27135, 27402, 27129, 27122, 27111,
      27141, 27057, 27166, 27117, 27156, 27115, 27146, 27154, 27329, 27171, 27155, 27204, 27148, 27250, 27190, 27256,
      27207, 27234, 27225, 27238, 27208, 27192, 27170, 27280, 27277, 27296, 27268, 27298, 27299 >>,
    <<
      27287, 34327, 27323, 27331, 27330, 27320, 27315, 27308, 27358, 27345, 27359, 27306, 27354, 27370, 27387, 27397,
      34326, 27386, 27410, 27414, 39729, 27423, 27448, 27447, 30428, 27449, 39150, 27463, 27459, 27465, 27472, 27481,
      27476, 27483, 27487, 27489, 27512, 27513, 27519, 27520, 27524, 27523, 27533, 27544, 27541, 27550, 27556, 27562,
      27563, 27567, 27570, 27569, 27571, 27575, 27580, 27590, 27595, 27603, 27615, 27628, 27627, 27635, 27631, 0,
      40638, 27656, 27667, 27668, 27675, 27684, 27683, 27742, 27733, 27746, 27754, 27778, 27789, 27802, 27777, 27803,
      27774, 27752, 27763, 27794, 27792, 27844, 27889, 27859, 27837, 27863, 27845, 27869, 27822, 27825, 27838, 27834,
      27867, 27887, 27865, 27882, 27935, 34893, 27958, 27947, 27965, 27960, 27929, 27957, 27955, 27922, 27916, 28003,
      28051, 28004, 27994, 28025, 27993, 28046, 28053, 28644, 28037, 28153, 28181, 28170, 28085, 28103, 28134, 28088,
      28102, 28140, 28126, 28108, 28136, 28114, 28101, 28154, 28121, 28132, 28117, 28138, 28142, 28205, 28270, 28206,
      28185, 28274, 28255, 28222, 28195, 28267, 28203, 28278, 28237, 28191, 28227, 28218, 28238, 28196, 28415, 28189,
      28216, 28290, 28330, 28312, 28361, 28343, 28371, 28349, 28335, 28356, 28338, 28372, 28373, 28303, 28325, 28354,
      28319, 28481, 28433, 28748, 28396, 28408, 28414, 28479, 28402, 28465, 28399, 28466, 28364 >>,
    <<
      28478, 28435, 28407, 28550, 28538, 28536, 28545, 28544, 28527, 28507, 28659, 28525, 28546, 28540, 28504, 28558,
      28561, 28610, 28518, 28595, 28579, 28577, 28580, 28601, 28614, 28586, 28639, 28629, 28652, 28628, 28632, 28657,
      28654, 28635, 28681, 28683, 28666, 28689, 28673, 28687, 28670, 28699, 28698, 28532, 28701, 28696, 28703, 28720,
      28734, 28722, 28753, 28771, 28825, 28818, 28847, 28913, 28844, 28856, 28851, 28846, 28895, 28875, 28893, 0,
      28889, 28937, 28925, 28956, 28953, 29029, 29013, 29064, 29030, 29026, 29004, 29014, 29036, 29071, 29179, 29060,
      29077, 29096, 29100, 29143, 29113, 29118, 29138, 29129, 29140, 29134, 29152, 29164, 29159, 29173, 29180, 29177,
      29183, 29197, 29200, 29211, 29224, 29229, 29228, 29232, 29234, 29243, 29244, 29247, 29248, 29254, 29259, 29272,
      29300, 29310, 29314, 29313, 29319, 29330, 29334, 29346, 29351, 29369, 29362, 29379, 29382, 29380, 29390, 29394,
      29410, 29408, 29409, 29433, 29431, 20495, 29463, 29450, 29468, 29462, 29469, 29492, 29487, 29481, 29477, 29502,
      29518, 29519, 40664, 29527, 29546, 29544, 29552, 29560, 29557, 29563, 29562, 29640, 29619, 29646, 29627, 29632,
      29669, 29678, 29662, 29858, 29701, 29807, 29733, 29688, 29746, 29754, 29781, 29759, 29791, 29785, 29761, 29788,
      29801, 29808, 29795, 29802, 29814, 29822, 29835, 29854, 29863, 29898, 29903, 29908, 29681 >>,
    <<
      29920, 29923, 29927, 29929, 29934, 29938, 29936, 29937, 29944, 29943, 29956, 29955, 29957, 29964, 29966, 29965,
      29973, 29971, 29982, 29990, 29996, 30012, 30020, 30029, 30026, 30025, 30043, 30022, 30042, 30057, 30052, 30055,
      30059, 30061, 30072, 30070, 30086, 30087, 30068, 30090, 30089, 30082, 30100, 30106, 30109, 30117, 30115, 30146,
      30131, 30147, 30133, 30141, 30136, 30140, 30129, 30157, 30154, 30162, 30169, 30179, 30174, 30206, 30207, 0,
      30204, 30209, 30192, 30202, 30194, 30195, 30219, 30221, 30217, 30239, 30247, 30240, 30241, 30242, 30244, 30260,
      30256, 30267, 30279, 30280, 30278, 30300, 30296, 30305, 30306, 30312, 30313, 30314, 30311, 30316, 30320, 30322,
      30326, 30328, 30332, 30336, 30339, 30344, 30347, 30350, 30358, 30355, 30361, 30362, 30384, 30388, 30392, 30393,
      30394, 30402, 30413, 30422, 30418, 30430, 30433, 30437, 30439, 30442, 34351, 30459, 30472, 30471, 30468, 30505,
      30500, 30494, 30501, 30502, 30491, 30519, 30520, 30535, 30554, 30568, 30571, 30555, 30565, 30591, 30590, 30585,
      30606, 30603, 30609, 30624, 30622, 30640, 30646, 30649, 30655, 30652, 30653, 30651, 30663, 30669, 30679, 30682,
      30684, 30691, 30702, 30716, 30732, 30738, 31014, 30752, 31018, 30789, 30862, 30836, 30854, 30844, 30874, 30860,
      30883, 30901, 30890, 30895, 30929, 30918, 30923, 30932, 30910, 30908, 30917, 30922, 30956 >>,
    <<
      30951, 30938, 30973, 30964, 30983, 30994, 30993, 31001, 31020, 31019, 31040, 31072, 31063, 31071, 31066, 31061,
      31059, 31098, 31103, 31114, 31133, 31143, 40779, 31146, 31150, 31155, 31161, 31162, 31177, 31189, 31207, 31212,
      31201, 31203, 31240, 31245, 31256, 31257, 31264, 31263, 31104, 31281, 31291, 31294, 31287, 31299, 31319, 31305,
      31329, 31330, 31337, 40861, 31344, 31353, 31357, 31368, 31383, 31381, 31384, 31382, 31401, 31432, 31408, 0,
      31414, 31429, 31428, 31423, 36995, 31431, 31434, 31437, 31439, 31445, 31443, 31449, 31450, 31453, 31457, 31458,
      31462, 31469, 31472, 31490, 31503, 31498, 31494, 31539, 31512, 31513, 31518, 31541, 31528, 31542, 31568, 31610,
      31492, 31565, 31499, 31564, 31557, 31605, 31589, 31604, 31591, 31600, 31601, 31596, 31598, 31645, 31640, 31647,
      31629, 31644, 31642, 31627, 31634, 31631, 31581, 31641, 31691, 31681, 31692, 31695, 31668, 31686, 31709, 31721,
      31761, 31764, 31718, 31717, 31840, 31744, 31751, 31763, 31731, 31735, 31767, 31757, 31734, 31779, 31783, 31786,
      31775, 31799, 31787, 31805, 31820, 31811, 31828, 31823, 31808, 31824, 31832, 31839, 31844, 31830, 31845, 31852,
      31861, 31875, 31888, 31908, 31917, 31906, 31915, 31905, 31912, 31923, 31922, 31921, 31918, 31929, 31933, 31936,
      31941, 31938, 31960, 31954, 31964, 31970, 39739, 31983, 31986, 31988, 31990, 31994, 32006 >>,
    <<
      32002, 32028, 32021, 32010, 32069, 32075, 32046, 32050, 32063, 32053, 32070, 32115, 32086, 32078, 32114, 32104,
      32110, 32079, 32099, 32147, 32137, 32091, 32143, 32125, 32155, 32186, 32174, 32163, 32181, 32199, 32189, 32171,
      32317, 32162, 32175, 32220, 32184, 32159, 32176, 32216, 32221, 32228, 32222, 32251, 32242, 32225, 32261, 32266,
      32291, 32289, 32274, 32305, 32287, 32265, 32267, 32290, 32326, 32358, 32315, 32309, 32313, 32323, 32311, 0,
      32306, 32314, 32359, 32349, 32342, 32350, 32345, 32346, 32377, 32362, 32361, 32380, 32379, 32387, 32213, 32381,
      36782, 32383, 32392, 32393, 32396, 32402, 32400, 32403, 32404, 32406, 32398, 32411, 32412, 32568, 32570, 32581,
      32588, 32589, 32590, 32592, 32593, 32597, 32596, 32600, 32607, 32608, 32616, 32617, 32615, 32632, 32642, 32646,
      32643, 32648, 32647, 32652, 32660, 32670, 32669, 32666, 32675, 32687, 32690, 32697, 32686, 32694, 32696, 35697,
      32709, 32710, 32714, 32725, 32724, 32737, 32742, 32745, 32755, 32761, 39132, 32774, 32772, 32779, 32786, 32792,
      32793, 32796, 32801, 32808, 32831, 32827, 32842, 32838, 32850, 32856, 32858, 32863, 32866, 32872, 32883, 32882,
      32880, 32886, 32889, 32893, 32895, 32900, 32902, 32901, 32923, 32915, 32922, 32941, 20880, 32940, 32987, 32997,
      32985, 32989, 32964, 32986, 32982, 33033, 33007, 33009, 33051, 33065, 33059, 33071, 33099 >>,
    <<
      38539, 33094, 33086, 33107, 33105, 33020, 33137, 33134, 33125, 33126, 33140, 33155, 33160, 33162, 33152, 33154,
      33184, 33173, 33188, 33187, 33119, 33171, 33193, 33200, 33205, 33214, 33208, 33213, 33216, 33218, 33210, 33225,
      33229, 33233, 33241, 33240, 33224, 33242, 33247, 33248, 33255, 33274, 33275, 33278, 33281, 33282, 33285, 33287,
      33290, 33293, 33296, 33302, 33321, 33323, 33336, 33331, 33344, 33369, 33368, 33373, 33370, 33375, 33380, 0,
      33378, 33384, 33386, 33387, 33326, 33393, 33399, 33400, 33406, 33421, 33426, 33451, 33439, 33467, 33452, 33505,
      33507, 33503, 33490, 33524, 33523, 33530, 33683, 33539, 33531, 33529, 33502, 33542, 33500, 33545, 33497, 33589,
      33588, 33558, 33586, 33585, 33600, 33593, 33616, 33605, 33583, 33579, 33559, 33560, 33669, 33690, 33706, 33695,
      33698, 33686, 33571, 33678, 33671, 33674, 33660, 33717, 33651, 33653, 33696, 33673, 33704, 33780, 33811, 33771,
      33742, 33789, 33795, 33752, 33803, 33729, 33783, 33799, 33760, 33778, 33805, 33826, 33824, 33725, 33848, 34054,
      33787, 33901, 33834, 33852, 34138, 33924, 33911, 33899, 33965, 33902, 33922, 33897, 33862, 33836, 33903, 33913,
      33845, 33994, 33890, 33977, 33983, 33951, 34009, 33997, 33979, 34010, 34000, 33985, 33990, 34006, 33953, 34081,
      34047, 34036, 34071, 34072, 34092, 34079, 34069, 34068, 34044, 34112, 34147, 34136, 34120 >>,
    <<
      34113, 34306, 34123, 34133, 34176, 34212, 34184, 34193, 34186, 34216, 34157, 34196, 34203, 34282, 34183, 34204,
      34167, 34174, 34192, 34249, 34234, 34255, 34233, 34256, 34261, 34269, 34277, 34268, 34297, 34314, 34323, 34315,
      34302, 34298, 34310, 34338, 34330, 34352, 34367, 34381, 20053, 34388, 34399, 34407, 34417, 34451, 34467, 34473,
      34474, 34443, 34444, 34486, 34479, 34500, 34502, 34480, 34505, 34851, 34475, 34516, 34526, 34537, 34540, 0,
      34527, 34523, 34543, 34578, 34566, 34568, 34560, 34563, 34555, 34577, 34569, 34573, 34553, 34570, 34612, 34623,
      34615, 34619, 34597, 34601, 34586, 34656, 34655, 34680, 34636, 34638, 34676, 34647, 34664, 34670, 34649, 34643,
      34659, 34666, 34821, 34722, 34719, 34690, 34735, 34763, 34749, 34752, 34768, 38614, 34731, 34756, 34739, 34759,
      34758, 34747, 34799, 34802, 34784, 34831, 34829, 34814, 34806, 34807, 34830, 34770, 34833, 34838, 34837, 34850,
      34849, 34865, 34870, 34873, 34855, 34875, 34884, 34882, 34898, 34905, 34910, 34914, 34923, 34945, 34942, 34974,
      34933, 34941, 34997, 34930, 34946, 34967, 34962, 34990, 34969, 34978, 34957, 34980, 34992, 35007, 34993, 35011,
      35012, 35028, 35032, 35033, 35037, 35065, 35074, 35068, 35060, 35048, 35058, 35076, 35084, 35082, 35091, 35139,
      35102, 35109, 35114, 35115, 35137, 35140, 35131, 35126, 35128, 35148, 35101, 35168, 35166 >>,
    <<
      35174, 35172, 35181, 35178, 35183, 35188, 35191, 35198, 35203, 35208, 35210, 35219, 35224, 35233, 35241, 35238,
      35244, 35247, 35250, 35258, 35261, 35263, 35264, 35290, 35292, 35293, 35303, 35316, 35320, 35331, 35350, 35344,
      35340, 35355, 35357, 35365, 35382, 35393, 35419, 35410, 35398, 35400, 35452, 35437, 35436, 35426, 35461, 35458,
      35460, 35496, 35489, 35473, 35493, 35494, 35482, 35491, 35524, 35533, 35522, 35546, 35563, 35571, 35559, 0,
      35556, 35569, 35604, 35552, 35554, 35575, 35550, 35547, 35596, 35591, 35610, 35553, 35606, 35600, 35607, 35616,
      35635, 38827, 35622, 35627, 35646, 35624, 35649, 35660, 35663, 35662, 35657, 35670, 35675, 35674, 35691, 35679,
      35692, 35695, 35700, 35709, 35712, 35724, 35726, 35730, 35731, 35734, 35737, 35738, 35898, 35905, 35903, 35912,
      35916, 35918, 35920, 35925, 35938, 35948, 35960, 35962, 35970, 35977, 35973, 35978, 35981, 35982, 35988, 35964,
      35992, 25117, 36013, 36010, 36029, 36018, 36019, 36014, 36022, 36040, 36033, 36068, 36067, 36058, 36093, 36090,
      36091, 36100, 36101, 36106, 36103, 36111, 36109, 36112, 40782, 36115, 36045, 36116, 36118, 36199, 36205, 36209,
      36211, 36225, 36249, 36290, 36286, 36282, 36303, 36314, 36310, 36300, 36315, 36299, 36330, 36331, 36319, 36323,
      36348, 36360, 36361, 36351, 36381, 36382, 36368, 36383, 36418, 36405, 36400, 36404, 36426 >>,
    <<
      36423, 36425, 36428, 36432, 36424, 36441, 36452, 36448, 36394, 36451, 36437, 36470, 36466, 36476, 36481, 36487,
      36485, 36484, 36491, 36490, 36499, 36497, 36500, 36505, 36522, 36513, 36524, 36528, 36550, 36529, 36542, 36549,
      36552, 36555, 36571, 36579, 36604, 36603, 36587, 36606, 36618, 36613, 36629, 36626, 36633, 36627, 36636, 36639,
      36635, 36620, 36646, 36659, 36667, 36665, 36677, 36674, 36670, 36684, 36681, 36678, 36686, 36695, 36700, 0,
      36706, 36707, 36708, 36764, 36767, 36771, 36781, 36783, 36791, 36826, 36837, 36834, 36842, 36847, 36999, 36852,
      36869, 36857, 36858, 36881, 36885, 36897, 36877, 36894, 36886, 36875, 36903, 36918, 36917, 36921, 36856, 36943,
      36944, 36945, 36946, 36878, 36937, 36926, 36950, 36952, 36958, 36968, 36975, 36982, 38568, 36978, 36994, 36989,
      36993, 36992, 37002, 37001, 37007, 37032, 37039, 37041, 37045, 37090, 37092, 25160, 37083, 37122, 37138, 37145,
      37170, 37168, 37194, 37206, 37208, 37219, 37221, 37225, 37235, 37234, 37259, 37257, 37250, 37282, 37291, 37295,
      37290, 37301, 37300, 37306, 37312, 37313, 37321, 37323, 37328, 37334, 37343, 37345, 37339, 37372, 37365, 37366,
      37406, 37375, 37396, 37420, 37397, 37393, 37470, 37463, 37445, 37449, 37476, 37448, 37525, 37439, 37451, 37456,
      37532, 37526, 37523, 37531, 37466, 37583, 37561, 37559, 37609, 37647, 37626, 37700, 37678 >>,
    <<
      37657, 37666, 37658, 37667, 37690, 37685, 37691, 37724, 37728, 37756, 37742, 37718, 37808, 37804, 37805, 37780,
      37817, 37846, 37847, 37864, 37861, 37848, 37827, 37853, 37840, 37832, 37860, 37914, 37908, 37907, 37891, 37895,
      37904, 37942, 37931, 37941, 37921, 37946, 37953, 37970, 37956, 37979, 37984, 37986, 37982, 37994, 37417, 38000,
      38005, 38007, 38013, 37978, 38012, 38014, 38017, 38015, 38274, 38279, 38282, 38292, 38294, 38296, 38297, 0,
      38304, 38312, 38311, 38317, 38332, 38331, 38329, 38334, 38346, 28662, 38339, 38349, 38348, 38357, 38356, 38358,
      38364, 38369, 38373, 38370, 38433, 38440, 38446, 38447, 38466, 38476, 38479, 38475, 38519, 38492, 38494, 38493,
      38495, 38502, 38514, 38508, 38541, 38552, 38549, 38551, 38570, 38567, 38577, 38578, 38576, 38580, 38582, 38584,
      38585, 38606, 38603, 38601, 38605, 35149, 38620, 38669, 38613, 38649, 38660, 38662, 38664, 38675, 38670, 38673,
      38671, 38678, 38681, 38692, 38698, 38704, 38713, 38717, 38718, 38724, 38726, 38728, 38722, 38729, 38748, 38752,
      38756, 38758, 38760, 21202, 38763, 38769, 38777, 38789, 38780, 38785, 38778, 38790, 38795, 38799, 38800, 38812,
      38824, 38822, 38819, 38835, 38836, 38851, 38854, 38856, 38859, 38876, 38893, 40783, 38898, 31455, 38902, 38901,
      38927, 38924, 38968, 38948, 38945, 38967, 38973, 38982, 38991, 38987, 39019, 39023, 39024 >>,
    <<
      39025, 39028, 39027, 39082, 39087, 39089, 39094, 39108, 39107, 39110, 39145, 39147, 39171, 39177, 39186, 39188,
      39192, 39201, 39197, 39198, 39204, 39200, 39212, 39214, 39229, 39230, 39234, 39241, 39237, 39248, 39243, 39249,
      39250, 39244, 39253, 39319, 39320, 39333, 39341, 39342, 39356, 39391, 39387, 39389, 39384, 39377, 39405, 39406,
      39409, 39410, 39419, 39416, 39425, 39439, 39429, 39394, 39449, 39467, 39479, 39493, 39490, 39488, 39491, 0,
      39486, 39509, 39501, 39515, 39511, 39519, 39522, 39525, 39524, 39529, 39531, 39530, 39597, 39600, 39612, 39616,
      39631, 39633, 39635, 39636, 39646, 39647, 39650, 39651, 39654, 39663, 39659, 39662, 39668, 39665, 39671, 39675,
      39686, 39704, 39706, 39711, 39714, 39715, 39717, 39719, 39720, 39721, 39722, 39726, 39727, 39730, 39748, 39747,
      39759, 39757, 39758, 39761, 39768, 39796, 39827, 39811, 39825, 39830, 39831, 39839, 39840, 39848, 39860, 39872,
      39882, 39865, 39878, 39887, 39889, 39890, 39907, 39906, 39908, 39892, 39905, 39994, 39922, 39921, 39920, 39957,
      39956, 39945, 39955, 39948, 39942, 39944, 39954, 39946, 39940, 39982, 39963, 39973, 39972, 39969, 39984, 40007,
      39986, 40006, 39998, 40026, 40032, 40039, 40054, 40056, 40167, 40172, 40176, 40201, 40200, 40171, 40195, 40198,
      40234, 40230, 40367, 40227, 40223, 40260, 40213, 40210, 40257, 40255, 40254, 40262, 40264 >>,
    <<
      40285, 40286, 40292, 40273, 40272, 40281, 40306, 40329, 40327, 40363, 40303, 40314, 40346, 40356, 40361, 40370,
      40388, 40385, 40379, 40376, 40378, 40390, 40399, 40386, 40409, 40403, 40440, 40422, 40429, 40431, 40445, 40474,
      40475, 40478, 40565, 40569, 40573, 40577, 40584, 40587, 40588, 40594, 40597, 40593, 40605, 40613, 40617, 40632,
      40618, 40621, 38753, 40652, 40654, 40655, 40656, 40660, 40668, 40670, 40669, 40672, 40677, 40680, 40687, 0,
      40692, 40694, 40695, 40697, 40699, 40700, 40701, 40711, 40712, 30391, 40725, 40737, 40748, 40766, 40778, 40786,
      40788, 40803, 40799, 40800, 40801, 40806, 40807, 40812, 40810, 40823, 40818, 40822, 40853, 40860, 40864, 22575,
      27079, 36953, 29796, 20956, 29081, 0, 0, 0, 0, 0, 0, 0, 0, 0, 0, 0,
      0, 0, 0, 0, 0, 0, 0, 0, 0, 0, 0, 0, 0, 0, 0, 0,
      0, 0, 0, 0, 0, 0, 0, 0, 0, 0, 0, 0, 0, 0, 0, 0,
      0, 0, 0, 0, 0, 0, 0, 0, 0, 0, 0, 0, 0, 0, 0, 0,
      0, 0, 0, 0, 0, 0, 0, 0, 0, 0, 0, 0, 0, 0, 0, 0,
      0, 0, 0, 0, 0, 0, 0, 0, 0, 0, 0, 0, 0 >>
  >>

\* 'cp932': the rows of the lead bytes 81, 87, ED, EE, FA, FB, FC, where it
\* differs from 'sjis'.
Cp932Rows ==
  <<
    <<
      12288, 12289, 12290, 65292, 65294, 12539, 65306, 65307, 65311, 65281, 12443, 12444, 180, 65344, 168, 65342,
      65507, 65343, 12541, 12542, 12445, 12446, 12291, 20189, 12293, 12294, 12295, 12540, 8213, 8208, 65295, 65340,
      65374, 8741, 65372, 8230, 8229, 8216, 8217, 8220, 8221, 65288, 65289, 12308, 12309, 65339, 65341, 65371,
      65373, 12296, 12297, 12298, 12299, 12300, 12301, 12302, 12303, 12304, 12305, 65291, 65293, 177, 215, 0,
      247, 65309, 8800, 65308, 65310, 8806, 8807, 8734, 8756, 9794, 9792, 176, 8242, 8243, 8451, 65509,
      65284, 65504, 65505, 65285, 65283, 65286, 65290, 65312, 167, 9734, 9733, 9675, 9679, 9678, 9671, 9670,
      9633, 9632, 9651, 9650, 9661, 9660, 8251, 12306, 8594, 8592, 8593, 8595, 12307, 0, 0, 0,
      0, 0, 0, 0, 0, 0, 0, 0, 8712, 8715, 8838, 8839, 8834, 8835, 8746, 8745,
      0, 0, 0, 0, 0, 0, 0, 0, 8743, 8744, 65506, 8658, 8660, 8704, 8707, 0,
      0, 0, 0, 0, 0, 0, 0, 0, 0, 0, 8736, 8869, 8978, 8706, 8711, 8801,
      8786, 8810, 8811, 8730, 8765, 8733, 8757, 8747, 8748, 0, 0, 0, 0, 0, 0, 0,
      8491, 8240, 9839, 9837, 9834, 8224, 8225, 182, 0, 0, 0, 0, 9711 >>,
    <<
      9312, 9313, 9314, 9315, 9316, 9317, 9318, 9319, 9320, 9321, 9322, 9323, 9324, 9325, 9326, 9327,
      9328, 9329, 9330, 9331, 8544, 8545, 8546, 8547, 8548, 8549, 8550, 8551, 8552, 8553, 0, 13129,
      13076, 13090, 13133, 13080, 13095, 13059, 13110, 13137, 13143, 13069, 13094, 13091, 13099, 13130, 13115, 13212,
      13213, 13214, 13198, 13199, 13252, 13217, 0, 0, 0, 0, 0, 0, 0, 0, 13179, 0,
      12317, 12319, 8470, 13261, 8481, 12964, 12965, 12966, 12967, 12968, 12849, 12850, 12857, 13182, 13181, 13180,
      8786, 8801, 8747, 8750, 8721, 8730, 8869, 8736, 8735, 8895, 8757, 8745, 8746, 0, 0, 0,
      0, 0, 0, 0, 0, 0, 0, 0, 0, 0, 0, 0, 0, 0, 0, 0,
      0, 0, 0, 0, 0, 0, 0, 0, 0, 0, 0, 0, 0, 0, 0, 0,
      0, 0, 0, 0, 0, 0, 0, 0, 0, 0, 0, 0, 0, 0, 0, 0,
      0, 0, 0, 0, 0, 0, 0, 0, 0, 0, 0, 0, 0, 0, 0, 0,
      0, 0, 0, 0, 0, 0, 0, 0, 0, 0, 0, 0, 0, 0, 0, 0,
      0, 0, 0, 0, 0, 0, 0, 0, 0, 0, 0, 0, 0 >>,
    <<
      32394, 35100, 37704, 37512, 34012, 20425, 28859, 26161, 26824, 37625, 26363, 24389, 20008, 20193, 20220, 20224,
      20227, 20281, 20310, 20370, 20362, 20378, 20372, 20429, 20544, 20514, 20479, 20510, 20550, 20592, 20546, 20628,
      20724, 20696, 20810, 20836, 20893, 20926, 20972, 21013, 21148, 21158, 21184, 21211, 21248, 21255, 21284, 21362,
      21395, 21426, 21469, 64014, 21660, 21642, 21673, 21759, 21894, 22361, 22373, 22444, 22472, 22471, 64015, 0,
      64016, 22686, 22706, 22795, 22867, 22875, 22877, 22883, 22948, 22970, 23382, 23488, 29999, 23512, 23532, 23582,
      23718, 23738, 23797, 23847, 23891, 64017, 23874, 23917, 23992, 23993, 24016, 24353, 24372, 24423, 24503, 24542,
      24669, 24709, 24714, 24798, 24789, 24864, 24818, 24849, 24887, 24880, 24984, 25107, 25254, 25589, 25696, 25757,
      25806, 25934, 26112, 26133, 26171, 26121, 26158, 26142, 26148, 26213, 26199, 26201, 64018, 26227, 26265, 26272,
      26290, 26303, 26362, 26382, 63785, 26470, 26555, 26706, 26560, 26625, 26692, 26831, 64019, 26984, 64020, 27032,
      27106, 27184, 27243, 27206, 27251, 27262, 27362, 27364, 27606, 27711, 27740, 27782, 27759, 27866, 27908, 28039,
      28015, 28054, 28076, 28111, 28152, 28146, 28156, 28217, 28252, 28199, 28220, 28351, 28552, 28597, 28661, 28677,
      28679, 28712, 28805, 28843, 28943, 28932, 29020, 28998, 28999, 64021, 29121, 29182, 29361 >>,
    <<
      29374, 29476, 64022, 29559, 29629, 29641, 29654, 29667, 29650, 29703, 29685, 29734, 29738, 29737, 29742, 29794,
      29833, 29855, 29953, 30063, 30338, 30364, 30366, 30363, 30374, 64023, 30534, 21167, 30753, 30798, 30820, 30842,
      31024, 64024, 64025, 64026, 31124, 64027, 31131, 31441, 31463, 64028, 31467, 31646, 64029, 32072, 32092, 32183,
      32160, 32214, 32338, 32583, 32673, 64030, 33537, 33634, 33663, 33735, 33782, 33864, 33972, 34131, 34137, 0,
      34155, 64031, 34224, 64032, 64033, 34823, 35061, 35346, 35383, 35449, 35495, 35518, 35551, 64034, 35574, 35667,
      35711, 36080, 36084, 36114, 36214, 64035, 36559, 64036, 64037, 36967, 37086, 64038, 37141, 37159, 37338, 37335,
      37342, 37357, 37358, 37348, 37349, 37382, 37392, 37386, 37434, 37440, 37436, 37454, 37465, 37457, 37433, 37479,
      37543, 37495, 37496, 37607, 37591, 37593, 37584, 64039, 37589, 37600, 37587, 37669, 37665, 37627, 64040, 37662,
      37631, 37661, 37634, 37744, 37719, 37796, 37830, 37854, 37880, 37937, 37957, 37960, 38290, 63964, 64041, 38557,
      38575, 38707, 38715, 38723, 38733, 38735, 38737, 38741, 38999, 39013, 64042, 64043, 39207, 64044, 39326, 39502,
      39641, 39644, 39797, 39794, 39823, 39857, 39867, 39936, 40304, 40299, 64045, 40473, 40657, 0, 0, 8560,
      8561, 8562, 8563, 8564, 8565, 8566, 8567, 8568, 8569, 65506, 65508, 65287, 65282 >>,
    <<
      8560, 8561, 8562, 8563, 8564, 8565, 8566, 8567, 8568, 8569, 8544, 8545, 8546, 8547, 8548, 8549,
      8550, 8551, 8552, 8553, 65506, 65508, 65287, 65282, 12849, 8470, 8481, 8757, 32394, 35100, 37704, 37512,
      34012, 20425, 28859, 26161, 26824, 37625, 26363, 24389, 20008, 20193, 20220, 20224, 20227, 20281, 20310, 20370,
      20362, 20378, 20372, 20429, 20544, 20514, 20479, 20510, 20550, 20592, 20546, 20628, 20724, 20696, 20810, 0,
      20836, 20893, 20926, 20972, 21013, 21148, 21158, 21184, 21211, 21248, 21255, 21284, 21362, 21395, 21426, 21469,
      64014, 21660, 21642, 21673, 21759, 21894, 22361, 22373, 22444, 22472, 22471, 64015, 64016, 22686, 22706, 22795,
      22867, 22875, 22877, 22883, 22948, 22970, 23382, 23488, 29999, 23512, 23532, 23582, 23718, 23738, 23797, 23847,
      23891, 64017, 23874, 23917, 23992, 23993, 24016, 24353, 24372, 24423, 24503, 24542, 24669, 24709, 24714, 24798,
      24789, 24864, 24818, 24849, 24887, 24880, 24984, 25107, 25254, 25589, 25696, 25757, 25806, 25934, 26112, 26133,
      26171, 26121, 26158, 26142, 26148, 26213, 26199, 26201, 64018, 26227, 26265, 26272, 26290, 26303, 26362, 26382,
      63785, 26470, 26555, 26706, 26560, 26625, 26692, 26831, 64019, 26984, 64020, 27032, 27106, 27184, 27243, 27206,
      27251, 27262, 27362, 27364, 27606, 27711, 27740, 27782, 27759, 27866, 27908, 28039, 28015 >>,
    <<
      28054, 28076, 28111, 28152, 28146, 28156, 28217, 28252, 28199, 28220, 28351, 28552, 28597, 28661, 28677, 28679,
      28712, 28805, 28843, 28943, 28932, 29020, 28998, 28999, 64021, 29121, 29182, 29361, 29374, 29476, 64022, 29559,
      29629, 29641, 29654, 29667, 29650, 29703, 29685, 29734, 29738, 29737, 29742, 29794, 29833, 29855, 29953, 30063,
      30338, 30364, 30366, 30363, 30374, 64023, 30534, 21167, 30753, 30798, 30820, 30842, 31024, 64024, 64025, 0,
      64026, 31124, 64027, 31131, 31441, 31463, 64028, 31467, 31646, 64029, 32072, 32092, 32183, 32160, 32214, 32338,
      32583, 32673, 64030, 33537, 33634, 33663, 33735, 33782, 33864, 33972, 34131, 34137, 34155, 64031, 34224, 64032,
      64033, 34823, 35061, 35346, 35383, 35449, 35495, 35518, 35551, 64034, 35574, 35667, 35711, 36080, 36084, 36114,
      36214, 64035, 36559, 64036, 64037, 36967, 37086, 64038, 37141, 37159, 37338, 37335, 37342, 37357, 37358, 37348,
      37349, 37382, 37392, 37386, 37434, 37440, 37436, 37454, 37465, 37457, 37433, 37479, 37543, 37495, 37496, 37607,
      37591, 37593, 37584, 64039, 37589, 37600, 37587, 37669, 37665, 37627, 64040, 37662, 37631, 37661, 37634, 37744,
      37719, 37796, 37830, 37854, 37880, 37937, 37957, 37960, 38290, 63964, 64041, 38557, 38575, 38707, 38715, 38723,
      38733, 38735, 38737, 38741, 38999, 39013, 64042, 64043, 39207, 64044, 39326, 39502, 39641 >>,
    <<
      39644, 39797, 39794, 39823, 39857, 39867, 39936, 40304, 40299, 64045, 40473, 40657, 0, 0, 0, 0,
      0, 0, 0, 0, 0, 0, 0, 0, 0, 0, 0, 0, 0, 0, 0, 0,
      0, 0, 0, 0, 0, 0, 0, 0, 0, 0, 0, 0, 0, 0, 0, 0,
      0, 0, 0, 0, 0, 0, 0, 0, 0, 0, 0, 0, 0, 0, 0, 0,
      0, 0, 0, 0, 0, 0, 0, 0, 0, 0, 0, 0, 0, 0, 0, 0,
      0, 0, 0, 0, 0, 0, 0, 0, 0, 0, 0, 0, 0, 0, 0, 0,
      0, 0, 0, 0, 0, 0, 0, 0, 0, 0, 0, 0, 0, 0, 0, 0,
      0, 0, 0, 0, 0, 0, 0, 0, 0, 0, 0, 0, 0, 0, 0, 0,
      0, 0, 0, 0, 0, 0, 0, 0, 0, 0, 0, 0, 0, 0, 0, 0,
      0, 0, 0, 0, 0, 0, 0, 0, 0, 0, 0, 0, 0, 0, 0, 0,
      0, 0, 0, 0, 0, 0, 0, 0, 0, 0, 0, 0, 0, 0, 0, 0,
      0, 0, 0, 0, 0, 0, 0, 0, 0, 0, 0, 0, 0 >>
  >>

(***************************************************************************)
(* Sequences of code points.                                               *)
(***************************************************************************)
Range(s) == {s[i] : i \in DOMAIN s}

MinOf(S) == CHOOSE x \in S : \A y \in S : x <= y

MaxOf(S) == CHOOSE x \in S : \A y \in S : x >= y

\* str.isspace(): the characters str.strip() removes.
IsSpace(c) ==
  \/ c \in 9..13
  \/ c \in 28..32
  \/ c \in {133, 160, 5760, 8232, 8233, 8239, 8287, 12288}
  \/ c \in 8192..8202

\* The first position from i on, going by d, that holds no white space
\* (Len(s) + 1 or 0 when every position holds some).
RECURSIVE SkipSpace(_, _, _)
SkipSpace(s, i, d) ==
  IF i < 1 \/ i > Len(s) THEN i
  ELSE IF IsSpace(s[i]) THEN SkipSpace(s, i + d, d) ELSE i

\* str.strip()
Strip(s) == SubSeq(s, SkipSpace(s, 1, 1), SkipSpace(s, Len(s), -1))

\* Position of the first occurrence of pat in s at or after from, 0 if none.
Find(s, pat, from) ==
  LET hits == {i \in from..(Len(s) - Len(pat) + 1) :
                 \A k \in DOMAIN pat : s[i + k - 1] = pat[k]}
  IN  IF hits = {} THEN 0 ELSE MinOf(hits)

\* pat in s
Contains(s, pat) == Find(s, pat, 1) # 0

\* The absent value None of Python.
None == <<-1>>

\* bool(x) is False: None or the empty string.
Falsy(x) == x = None \/ x = <<>>

(***************************************************************************)
(* Codecs.  open(file_path, 'r', encoding=encoding, errors='ignore')       *)
(* decodes the whole file and drops every undecodable byte sequence.       *)
(***************************************************************************)
\* Number of continuation bytes a UTF-8 lead byte announces (0: not a lead).
Utf8Need(c) ==
  IF c >= 194 /\ c <= 223 THEN 1
  ELSE IF c >= 224 /\ c <= 239 THEN 2
  ELSE IF c >= 240 /\ c <= 244 THEN 3
  ELSE 0

RECURSIVE Utf8Fold(_, _, _, _)
Utf8Fold(b, i, k, cp) ==
  IF k = 0 THEN cp ELSE Utf8Fold(b, i + 1, k - 1, cp * 64 + (b[i] - 128))

\* Marks a position that yields no character.
Dropped == -1

\* The 'utf-8' codec with errors='ignore': an ASCII byte is itself, a complete
\* sequence is its code point; an invalid byte, or a lead with the valid
\* continuations that follow it, is dropped and decoding resumes after them.
\* Utf8ContOk: whether byte x may follow lead c as continuation number k
\* (1-based); Utf8Valid: how many of the announced continuation bytes are
\* present and valid at i.
utf8_decode(b) ==
  LET Utf8ContOk(c, k, x) ==
        IF k > 1 THEN x >= 128 /\ x <= 191
        ELSE IF c = 224 THEN x >= 160 /\ x <= 191
        ELSE IF c = 237 THEN x >= 128 /\ x <= 159
        ELSE IF c = 240 THEN x >= 144 /\ x <= 191
        ELSE IF c = 244 THEN x >= 128 /\ x <= 143
        ELSE x >= 128 /\ x <= 191
      Utf8Valid(i) ==
        LET need == Utf8Need(b[i])
            bad  == {k \in 1..need : i + k > Len(b) \/ ~Utf8ContOk(b[i], k, b[i + k])}
        IN  IF bad = {} THEN need ELSE MinOf(bad) - 1
  IN  SelectSeq(
        [i \in DOMAIN b |->
           IF b[i] < 128 THEN b[i]
           ELSE IF b[i] <= 191 THEN Dropped
           ELSE IF Utf8Need(b[i]) > 0 /\ Utf8Valid(i) = Utf8Need(b[i])
           THEN Utf8Fold(b, i + 1, Utf8Need(b[i]),
                         IF b[i] >= 240 THEN b[i] - 240
                         ELSE IF b[i] >= 224 THEN b[i] - 224 ELSE b[i] - 192)
           ELSE Dropped],
        LAMBDA v : v # Dropped)

\* Decodes the code units from byte first on (little endian unless a FE FF
\* mark says big); errors='ignore' drops a lone surrogate and a trailing odd
\* byte.
utf16_decode(b, first, be) ==
  LET n       == (Len(b) - first + 1) \div 2
      at(k)   == first + 2 * (k - 1)
      u(k)    == IF be THEN b[at(k)] * 256 + b[at(k) + 1]
                 ELSE b[at(k) + 1] * 256 + b[at(k)]
      high(x) == x >= 55296 /\ x <= 56319
      low(x)  == x >= 56320 /\ x <= 57343
  IN  SelectSeq(
        [k \in 1..n |->
           IF high(u(k))
           THEN IF k < n /\ low(u(k + 1))
                THEN 65536 + (u(k) - 55296) * 1024 + (u(k + 1) - 56320)
                ELSE Dropped
           ELSE IF low(u(k)) THEN Dropped
           ELSE u(k)],
        LAMBDA v : v # Dropped)

\* An exception the read raises (UnicodeError is an Exception).
UnicodeError == <<-2>>

\* A trail byte: 40..7E or 80..FC.
IsTrail(t) == (t >= 64 /\ t <= 126) \/ (t >= 128 /\ t <= 252)

\* The row of JisRows of a lead byte, 0 for a byte that leads nothing.
JisRowOf(c) ==
  IF c >= 129 /\ c <= 159 THEN c - 128
  ELSE IF c >= 224 /\ c <= 234 THEN c - 192
  ELSE 0

\* The character of the pair c t in 'sjis', 0 if it is none.
SjisDouble(c, t) ==
  IF JisRowOf(c) = 0 \/ ~IsTrail(t) THEN 0 ELSE JisRows[JisRowOf(c)][t - 63]

\* Single bytes of 'sjis': ASCII and half-width katakana; -1: not a character.
SjisSingle(c) ==
  IF c < 128 THEN c ELSE IF c >= 161 /\ c <= 223 THEN 65377 + (c - 161) ELSE -1

\* Decodes bytes lo..hi starting at byte at (at > hi: a double-byte character
\* reached over the end of the piece); next is where decoding goes on.  A
\* single byte, a pair that is a character, or else one dropped byte.
\* 'cp932' also gives the single bytes 80, A0, FD, FE, FF a character; its
\* lead bytes F0..F9 map onto the private use area from U+E000, 188
\* characters a row, and the lead bytes of Cp932Rows take their row from it.
RECURSIVE sjis_scan(_, _, _, _, _)
sjis_scan(b, lo, hi, at, cp932) ==
  IF at > hi THEN [out |-> <<>>, next |-> at]
  ELSE IF lo = hi
  THEN LET Cp932Single(c) ==
             IF c = 128 THEN 128
             ELSE IF c = 160 THEN 63728
             ELSE IF c >= 253 THEN 63729 + (c - 253)
             ELSE SjisSingle(c)
           Cp932RowOf(c) ==
             CASE c = 129 -> 1 [] c = 135 -> 2 [] c = 237 -> 3 [] c = 238 -> 4
               [] c = 250 -> 5 [] c = 251 -> 6 [] c = 252 -> 7 [] OTHER -> 0
           Cp932Double(c, t) ==
             IF ~IsTrail(t) THEN 0
             ELSE IF c >= 240 /\ c <= 249
             THEN 57344 + 188 * (c - 240) + (IF t < 128 THEN t - 64 ELSE t - 65)
             ELSE IF Cp932RowOf(c) # 0 THEN Cp932Rows[Cp932RowOf(c)][t - 63]
             ELSE SjisDouble(c, t)
           one == IF cp932 THEN Cp932Single(b[lo]) ELSE SjisSingle(b[lo])
           two == IF lo = Len(b) THEN 0
                  ELSE IF cp932 THEN Cp932Double(b[lo], b[lo + 1])
                  ELSE SjisDouble(b[lo], b[lo + 1])
       IN  IF one >= 0 THEN [out |-> <<one>>, next |-> lo + 1]
           ELSE IF two # 0 THEN [out |-> <<two>>, next |-> lo + 2]
           ELSE [out |-> <<>>, next |-> lo + 1]
  ELSE LET mid   == (lo + hi) \div 2
           left  == sjis_scan(b, lo, mid, at, cp932)
           right == sjis_scan(b, mid + 1, hi, left.next, cp932)
       IN  [out |-> left.out \o right.out, next |-> right.next]

\* The 'sjis' and 'cp932' codecs with errors='ignore'.
sjis_decode(b, cp932) ==
  IF b = <<>> THEN <<>> ELSE sjis_scan(b, 1, Len(b), 1, cp932).out

\* f.read() of a file opened with the given encoding and errors='ignore':
\* the text, or UnicodeError when the read raises it.  For 'utf-16' a byte
\* order mark selects the order and is consumed; a file of two bytes or more
\* that starts with neither mark raises UnicodeError ("UTF-16 stream does not
\* start with BOM"), which errors='ignore' does not suppress.  Text mode
\* reads with universal newlines: \r\n and \r become \n.
ReadText(b, encoding) ==
  LET Utf16Decode ==
        IF Len(b) >= 2 /\ b[1] = 255 /\ b[2] = 254 THEN utf16_decode(b, 3, FALSE)
        ELSE IF Len(b) >= 2 /\ b[1] = 254 /\ b[2] = 255 THEN utf16_decode(b, 3, TRUE)
        ELSE IF Len(b) >= 2 THEN UnicodeError
        ELSE <<>>
      UniversalNewlines(s) ==
        SelectSeq(
          [i \in DOMAIN s |->
             IF s[i] = 13 THEN 10
             ELSE IF s[i] = 10 /\ i > 1 /\ s[i - 1] = 13 THEN Dropped
             ELSE s[i]],
          LAMBDA v : v # Dropped)
      raw == CASE encoding = "utf-8"  -> utf8_decode(b)
               [] encoding = "sjis"   -> sjis_decode(b, FALSE)
               [] encoding = "cp932"  -> sjis_decode(b, TRUE)
               [] encoding = "utf-16" -> Utf16Decode
  IN  IF raw = UnicodeError THEN UnicodeError ELSE UniversalNewlines(raw)

(***************************************************************************)
(* The feeds offered to the program.  A feed is described by the encoding  *)
(* it was saved in, the tags that enclose its headline and its csv body,   *)
(* the headline and the body; FileBytes is the file on disk.               *)
(***************************************************************************)
\* Most data rows after the header line of a generated body.
MaxRows == 2

\* Most directory entries the listing returns.
MaxFiles == 2

OpenTag(name) == <<60>> \o name \o <<62>>

CloseTag(name) == <<60, 47>> \o name \o <<62>>

RECURSIVE JoinLines(_)
JoinLines(lines) ==
  IF lines = <<>> THEN <<>>
  ELSE IF Len(lines) = 1 THEN lines[1]
  ELSE lines[1] \o <<10>> \o JoinLines(Tail(lines))

\* The generated bodies: a first line (a header, or a title line and no
\* header yet) and up to MaxRows lines after it, the blank line among them.
Bodies ==
  {JoinLines(<<h>> \o rows) :
     h \in {H1, H2, N0},
     rows \in UNION {[1..k -> {L1, L2, L5, L6, L7, L8, <<>>, H1}] : k \in 0..MaxRows}}

\* The body of the end-to-end scenario.
E2E == JoinLines(<<H1, L1, L2E, L3>>)

B_OK == JoinLines(<<H1, L2>>)

\* The body with an inner sub-tag after the csv payload: <InData>x</InData>
B_INDATA ==
  JoinLines(<<H1, L2, <<60, 73, 110, 68, 97, 116, 97, 62, 120, 60, 47, 73, 110,
                        68, 97, 116, 97, 62>>>>)

\* Every encoding and tag layout around one body; every headline around the
\* bodies that exercise the extraction; every generated body in a plain file.
Feeds ==
  [enc : {"utf-8", "shift_jis", "utf-16"},
   htag : {"InHeadLine", "HeadLine", "DeliveryHeadline1", "none", "both"},
   btag : {"CsvData", "Sentence", "none"},
   hl : {HL_A}, body : {B_OK}]
  \cup
  [enc : {"utf-8"}, htag : {"HeadLine"}, btag : {"CsvData"},
   hl : {HL_A, HL_B, HL_BLANK},
   body : {B_OK, B_INDATA, JUNK_OPEN, E2E, B_TOTALS, JoinLines(<<H3, L9>>),
           JoinLines(<<H1, LA>>), JoinLines(<<H1, LC>>), JoinLines(<<H1, LD>>)}]
  \cup
  [enc : {"utf-8"}, htag : {"HeadLine"}, btag : {"CsvData"},
   hl : {HL_A}, body : Bodies \cup {JoinLines(<<LONG_LINE, H1, L2E>>)}]

TagName(t) ==
  CASE t = "InHeadLine" -> TAG_InHeadLine
    [] t = "HeadLine" -> TAG_HeadLine
    [] t = "DeliveryHeadline1" -> TAG_DeliveryHeadline1
    [] t = "CsvData" -> TAG_CsvData
    [] t = "Sentence" -> TAG_Sentence

\* The text of the file: the headline in its tag (or bare, or in HeadLine
\* and InHeadLine both), then the body in its tag (or bare).
FeedText(feed) ==
  LET HeadlinePart ==
        IF feed.htag = "none" THEN feed.hl
        ELSE IF feed.htag = "both"
        THEN OpenTag(TAG_HeadLine) \o <<90, 90>> \o CloseTag(TAG_HeadLine)
             \o OpenTag(TAG_InHeadLine) \o feed.hl \o CloseTag(TAG_InHeadLine)
        ELSE OpenTag(TagName(feed.htag)) \o feed.hl \o CloseTag(TagName(feed.htag))
      BodyPart ==
        IF feed.btag = "none" THEN feed.body
        ELSE OpenTag(TagName(feed.btag)) \o <<10>> \o feed.body \o <<10>>
             \o CloseTag(TagName(feed.btag))
  IN  HeadlinePart \o <<10>> \o BodyPart \o <<10>>

\* The encoded characters lo..hi of s, concatenated.  'shift_jis' writes for
\* a character of its table the lead byte of its row and the trail byte of
\* its place in the row.
RECURSIVE EncodeAll(_, _, _, _)
EncodeAll(s, enc, lo, hi) ==
  LET Utf8Encode1(c) ==
        IF c < 128 THEN <<c>>
        ELSE IF c < 2048 THEN <<192 + (c \div 64), 128 + (c % 64)>>
        ELSE <<224 + (c \div 4096), 128 + ((c \div 64) % 64), 128 + (c % 64)>>
      SjisKey(c) ==
        LET r == CHOOSE r \in DOMAIN JisRows : \E t \in DOMAIN JisRows[r] : JisRows[r][t] = c
            t == CHOOSE t \in DOMAIN JisRows[r] : JisRows[r][t] = c
        IN  <<IF r <= 31 THEN r + 128 ELSE r + 192, t + 63>>
      Encode1(c) ==
        CASE enc = "utf-8" -> Utf8Encode1(c)
          [] enc = "shift_jis" -> IF c < 128 THEN <<c>> ELSE SjisKey(c)
          [] enc = "utf-16" -> <<c % 256, c \div 256>>
  IN  IF lo > hi THEN <<>>
      ELSE IF lo = hi THEN Encode1(s[lo])
      ELSE EncodeAll(s, enc, lo, (lo + hi) \div 2)
           \o EncodeAll(s, enc, (lo + hi) \div 2 + 1, hi)

\* The bytes of the saved file ('utf-16' writes a byte order mark first).
FileBytes(feed) ==
  (IF feed.enc = "utf-16" THEN <<255, 254>> ELSE <<>>)
  \o EncodeAll(FeedText(feed), feed.enc, 1, Len(FeedText(feed)))

(***************************************************************************)
(* extract_content_from_xml                                                *)
(***************************************************************************)
encodings_to_try == <<"utf-8", "sjis", "cp932", "utf-16">>

\* re.search(r'<tag>(.*?)</tag>', content, re.DOTALL): the first opening tag
\* and the first closing tag after it; group is the text between them.
re_search_tag(content, tag) ==
  LET open  == OpenTag(tag)
      close == CloseTag(tag)
      p     == Find(content, open, 1)
      q     == IF p = 0 THEN 0 ELSE Find(content, close, p + Len(open))
  IN  IF q = 0 THEN [found |-> FALSE, group |-> <<>>]
      ELSE [found |-> TRUE, group |-> SubSeq(content, p + Len(open), q - 1)]

\* Lines 100-105: InHeadLine, then HeadLine, then DeliveryHeadline1.
headline_match(content) ==
  IF re_search_tag(content, TAG_InHeadLine).found
  THEN re_search_tag(content, TAG_InHeadLine)
  ELSE IF re_search_tag(content, TAG_HeadLine).found
  THEN re_search_tag(content, TAG_HeadLine)
  ELSE re_search_tag(content, TAG_DeliveryHeadline1)

\* Lines 108-111: CsvData, then Sentence.
csv_data_match(content) ==
  IF re_search_tag(content, TAG_CsvData).found
  THEN re_search_tag(content, TAG_CsvData)
  ELSE re_search_tag(content, TAG_Sentence)

\* re.sub(r'</?InData>.*', '', text, flags=re.DOTALL): cut from the first
\* <InData> or </InData> to the end.
csv_data_cleaned(text) ==
  LET a    == Find(text, OpenTag(TAG_InData), 1)
      b    == Find(text, CloseTag(TAG_InData), 1)
      cuts == {a, b} \ {0}
  IN  IF cuts = {} THEN text ELSE SubSeq(text, 1, MinOf(cuts) - 1)

\* A test that looks at the headline alone: if headline_match.
HeadlineFoundOnly(content) == headline_match(content).found

\* Line 114: both the headline and the csv data were found.
BothFound(content) ==
  headline_match(content).found /\ csv_data_match(content).found

\* Lines 90-131 from attempt k on: the first encoding whose text holds both
\* tags decides; a read that raises is caught at line 125 and the next
\* encoding is tried; none does: (None, None).
RECURSIVE extract_from(_, _)
extract_from(bytes, k) ==
  IF k > Len(encodings_to_try)
  THEN [encoding |-> "none", headline |-> None, csv |-> None]
  ELSE LET content == ReadText(bytes, encodings_to_try[k]) IN
       IF content = UnicodeError THEN extract_from(bytes, k + 1)
       ELSE IF BothFound(content)
       THEN [encoding |-> encodings_to_try[k],
             headline |-> Strip(headline_match(content).group),
             csv |-> csv_data_cleaned(Strip(csv_data_match(content).group))]
       ELSE extract_from(bytes, k + 1)

extract_content_from_xml(bytes) == extract_from(bytes, 1)

(***************************************************************************)
(* sanitize_filename                                                       *)
(***************************************************************************)
\* re.sub(r'[\\/*?:"<>|]', '_', name)
sanitize_filename(name) ==
  [i \in DOMAIN name |-> IF name[i] \in Range(UNSAFE_CHARS) THEN 95 ELSE name[i]]

(***************************************************************************)
(* ZEN2HAN_TABLE and str.translate                                         *)
(***************************************************************************)
\* Full-width comma, period, space and digits 0-9 to half-width.
ZEN2HAN_TABLE(c) ==
  IF c = 65292 THEN 44
  ELSE IF c = 65294 THEN 46
  ELSE IF c = 12288 THEN 32
  ELSE IF c >= 65296 /\ c <= 65305 THEN c - 65296 + 48
  ELSE c

translate(s) == [i \in DOMAIN s |-> ZEN2HAN_TABLE(s[i])]

(***************************************************************************)
(* csv.reader(io.StringIO(text)), default dialect: delimiter ',',          *)
(* quotechar '"', doublequote, not strict.  The reader takes the text line *)
(* by line (a line ends after '\n') and gives its parser every character   *)
(* of the line and then the end-of-line signal EOL.  The parser's state is *)
(* st, the field being filled, the fields of the record and the rows read. *)
(* The field buffer is kept as the reader keeps it, a length and storage   *)
(* that grows: field_len characters, the full blocks of 512 characters in  *)
(* blocks and the block being filled in field.                             *)
(***************************************************************************)
\* The end-of-line signal: no character.
EOL == -2

\* The blocks lo..hi, concatenated.
RECURSIVE Concat(_, _, _)
Concat(blocks, lo, hi) ==
  IF lo > hi THEN <<>>
  ELSE IF lo = hi THEN blocks[lo]
  ELSE Concat(blocks, lo, (lo + hi) \div 2) \o Concat(blocks, (lo + hi) \div 2 + 1, hi)

\* parse_save_field: the field joins the record and the buffer is emptied;
\* st is the state the parser goes to.
parse_save_field(p, st) ==
  [p EXCEPT !.fields = Append(@, Concat(p.blocks, 1, Len(p.blocks)) \o p.field),
            !.field = <<>>, !.blocks = <<>>, !.field_len = 0, !.st = st]

\* parse_add_char: one more character of the field and on to state st, or
\* csv.Error ("field larger than field limit") when the field is at the
\* limit; "ERROR" is the state after csv.Error was raised.
parse_add_char(p, c, st) ==
  IF p.field_len >= field_size_limit THEN [p EXCEPT !.st = "ERROR"]
  ELSE IF Len(p.field) = 512
  THEN [p EXCEPT !.blocks = Append(@, p.field), !.field = <<c>>,
                 !.field_len = @ + 1, !.st = st]
  ELSE [p EXCEPT !.field = Append(@, c), !.field_len = @ + 1, !.st = st]

\* One step of the parser.  A line break, or the end of the line, outside
\* quotes ends the field; a character other than a line break after a line
\* break outside quotes raises csv.Error.
parse_process_char(p, c) ==
  LET brk == c = 10 \/ c = 13
      st  == IF p.st = "START_RECORD" /\ c # EOL /\ ~brk THEN "START_FIELD" ELSE p.st
      eol == IF c = EOL THEN "START_RECORD" ELSE "EAT_CRNL"
  IN  CASE st = "START_RECORD" ->
             IF c = EOL THEN p ELSE [p EXCEPT !.st = "EAT_CRNL"]
        [] st = "START_FIELD" ->
             IF brk \/ c = EOL THEN parse_save_field(p, eol)
             ELSE IF c = 34 THEN [p EXCEPT !.st = "IN_QUOTED_FIELD"]
             ELSE IF c = 44 THEN parse_save_field(p, "START_FIELD")
             ELSE parse_add_char(p, c, "IN_FIELD")
        [] st = "IN_FIELD" ->
             IF brk \/ c = EOL THEN parse_save_field(p, eol)
             ELSE IF c = 44 THEN parse_save_field(p, "START_FIELD")
             ELSE parse_add_char(p, c, "IN_FIELD")
        [] st = "IN_QUOTED_FIELD" ->
             IF c = EOL THEN p
             ELSE IF c = 34 THEN [p EXCEPT !.st = "QUOTE_IN_QUOTED_FIELD"]
             ELSE parse_add_char(p, c, "IN_QUOTED_FIELD")
        [] st = "QUOTE_IN_QUOTED_FIELD" ->
             IF c = 34 THEN parse_add_char(p, c, "IN_QUOTED_FIELD")
             ELSE IF c = 44 THEN parse_save_field(p, "START_FIELD")
             ELSE IF brk \/ c = EOL THEN parse_save_field(p, eol)
             ELSE parse_add_char(p, c, "IN_FIELD")
        [] st = "EAT_CRNL" ->
             IF c = EOL THEN [p EXCEPT !.st = "START_RECORD"]
             ELSE IF brk THEN p
             ELSE [p EXCEPT !.st = "ERROR"]
        [] st = "ERROR" -> p

\* After a line: the record is complete when the parser is back at the start.
CsvLineEnd(p) ==
  LET q == parse_process_char(p, EOL)
  IN  IF q.st = "START_RECORD"
      THEN [q EXCEPT !.rows = Append(@, q.fields), !.fields = <<>>]
      ELSE q

\* The parser after the characters lo..hi of the text, entered in state p:
\* every character goes to the parser and a '\n' ends its line.  The left
\* half is evaluated (its state looked at) before the right half starts
\* from it.
RECURSIVE CsvFold(_, _, _, _)
CsvFold(text, lo, hi, p) ==
  LET CsvChar(c) ==
        IF c = 10 THEN CsvLineEnd(parse_process_char(p, c)) ELSE parse_process_char(p, c)
      CsvStates ==
        {"START_RECORD", "START_FIELD", "IN_FIELD", "IN_QUOTED_FIELD",
         "QUOTE_IN_QUOTED_FIELD", "EAT_CRNL", "ERROR"}
  IN  IF lo > hi THEN p
      ELSE IF lo = hi THEN CsvChar(text[lo])
      ELSE LET left == CsvFold(text, lo, (lo + hi) \div 2, p)
           IN  IF left.st \in CsvStates
               THEN CsvFold(text, (lo + hi) \div 2 + 1, hi, left)
               ELSE left

\* list(csv.reader(io.StringIO(text))): the rows, each a sequence of fields,
\* or csv.Error raised.  At the end of the text a record that was begun is
\* given as it stands.
csv_reader(text) ==
  LET p0 == [st |-> "START_RECORD", field |-> <<>>, blocks |-> <<>>,
             field_len |-> 0, fields |-> <<>>, rows |-> <<>>]
      p1 == CsvFold(SubSeq(text, 1, Len(text)), 1, Len(text), p0)
      p2 == IF text # <<>> /\ text[Len(text)] # 10 THEN CsvLineEnd(p1) ELSE p1
  IN  IF p2.st = "ERROR" THEN [raised |-> TRUE, rows |-> <<>>]
      ELSE [raised |-> FALSE,
            rows |-> IF p2.st = "IN_QUOTED_FIELD" \/ p2.field_len # 0
                     THEN Append(p2.rows, parse_save_field(p2, p2.st).fields)
                     ELSE p2.rows]

(***************************************************************************)
(* process_xml_file: header detection (lines 340-351)                      *)
(***************************************************************************)
\* Line 344: the row is not empty and its first field, stripped, is '順位'.
IsHeaderRow(row) == row # <<>> /\ Strip(row[1]) = SENTINEL

\* The scan of lines 342-347 without its break: the last match stays.
LastHeaderRow(all_rows) ==
  LET hits == {i \in DOMAIN all_rows : IsHeaderRow(all_rows[i])}
  IN  IF hits = {} THEN 0 ELSE MaxOf(hits)

\* Index of the first header row (1-based), 0 if there is none.
FindHeaderRow(all_rows) ==
  LET hits == {i \in DOMAIN all_rows : IsHeaderRow(all_rows[i])}
  IN  IF hits = {} THEN 0 ELSE MinOf(hits)

\* list.index(x): 1-based position of the first x, 0 for ValueError.
IndexOf(row, x) ==
  LET hits == {j \in DOMAIN row : row[j] = x}
  IN  IF hits = {} THEN 0 ELSE MinOf(hits)

(***************************************************************************)
(* process_xml_file: row classification (lines 357-367)                    *)
(***************************************************************************)
\* name_col is the 1-based position of the name column.
is_valid_row(row, name_col) == Len(row) > name_col - 1

has_name(row, name_col) == Strip(row[name_col]) # <<>>

\* re.match(r'^\s*\d{4,}', s) is not None for the stripped second field.  \d
\* of a str pattern is a decimal digit of any script: the decimal digits of
\* Unicode are the ten characters from the digit zero of each script on.
is_candidate_code(row) ==
  LET DecimalDigitZeros ==
        {48, 1632, 1776, 1984, 2406, 2534, 2662, 2790, 2918, 3046, 3174, 3302,
         3430, 3558, 3664, 3792, 3872, 4160, 4240, 6112, 6160, 6470, 6608, 6784,
         6800, 6992, 7088, 7232, 7248, 42528, 43216, 43264, 43472, 43504, 43600,
         44016, 65296, 66720, 68912, 69734, 69872, 69942, 70096, 70384, 70736,
         70864, 71248, 71360, 71472, 71904, 72016, 72784, 73040, 73120, 92768,
         92864, 93008, 120782, 120792, 120802, 120812, 120822, 123200, 123632,
         125264, 130032}
      IsDigit(c) == \E z \in DecimalDigitZeros : c >= z /\ c <= z + 9
      StartsWithFourDigits(s) ==
        LET body == {i \in DOMAIN s : ~IsSpace(s[i])}
            from == IF body = {} THEN Len(s) + 1 ELSE MinOf(body)
        IN  from + 3 <= Len(s) /\ \A k \in 0..3 : IsDigit(s[from + k])
  IN  StartsWithFourDigits(Strip(row[2]))

\* Line 366, for a row long enough to be indexed.
IsCandidate(row, name_col) ==
  is_valid_row(row, name_col) /\ has_name(row, name_col) /\ is_candidate_code(row)

(***************************************************************************)
(* Numbers.  pd.to_numeric reads a text of digits with int(), an integer   *)
(* of any size, and reads every number as a C double as well; astype(int)  *)
(* gives int64.  A natural number is held here as its digits in base 2^14, *)
(* the least significant first and the last one not 0 (<<>> is 0; <<10>>   *)
(* is 10, <<1, 2>> is 1 + 2 * 16384); an integer is a sign and a natural   *)
(* number; a double is the number m * 2^e, m below 2^53 once rounded.      *)
(* Doubles are IEEE-754 binary64, every operation rounded to nearest, ties *)
(* to even.                                                                *)
(***************************************************************************)
IsAsciiDigit(c) == c >= 48 /\ c <= 57

\* The first position of s at or after i whose element is not in C
\* (Len(s) + 1 when there is none).
NextNot(s, i, C) == MinOf({k \in i..(Len(s) + 1) : k > Len(s) \/ s[k] \notin C})

\* The powers of two 2^0 .. 2^14; the last is the base of the digits.
POW2 == <<1, 2, 4, 8, 16, 32, 64, 128, 256, 512, 1024, 2048, 4096, 8192, 16384>>

\* The natural number of the digits a: its zeros at the high end taken off.
Norm(a) == SubSeq(a, 1, MaxOf({0} \cup {i \in DOMAIN a : a[i] # 0}))

\* The digits, from the place k on, of the number that has cols[i] at the
\* place i and c more at the place k: every place brought into 0 .. 2^14-1,
\* what is over (or under) carried to the next place.
RECURSIVE Carry(_, _, _)
Carry(cols, k, c) ==
  IF k > Len(cols)
  THEN (IF c = 0 THEN <<>> ELSE <<c % POW2[15]>> \o Carry(cols, k, c \div POW2[15]))
  ELSE <<(cols[k] + c) % POW2[15]>> \o Carry(cols, k + 1, (cols[k] + c) \div POW2[15])

NatLess(a, b) ==
  \/ Len(a) < Len(b)
  \/ /\ Len(a) = Len(b)
     /\ \E i \in DOMAIN a : a[i] < b[i] /\ \A k \in (i + 1)..Len(a) : a[k] = b[k]

\* a * n + d, for n and d below 2^14.
NatScale(a, n, d) == Norm(Carry([i \in DOMAIN a |-> a[i] * n], 1, d))

NatAdd(a, b) ==
  LET At(x, i) == IF i <= Len(x) THEN x[i] ELSE 0
  IN  Norm(Carry([i \in 1..(IF Len(a) > Len(b) THEN Len(a) ELSE Len(b)) |->
                    At(a, i) + At(b, i)], 1, 0))

\* a - b, for b not over a.
NatSub(a, b) ==
  Norm(Carry([i \in DOMAIN a |-> a[i] - (IF i <= Len(b) THEN b[i] ELSE 0)], 1, 0))

\* a * b: the product of two digits is a digit at their place and a digit
\* at the next place.
NatMul(a, b) ==
  LET Pair(i, j) == IF j >= 1 /\ j <= Len(b) THEN a[i] * b[j] ELSE 0
      RECURSIVE Dot(_, _)
      \* what the digits of a from a[i] on give the place k
      Dot(k, i) ==
        IF i > Len(a) THEN 0
        ELSE (Pair(i, k + 1 - i) % POW2[15]) + (Pair(i, k - i) \div POW2[15])
             + Dot(k, i + 1)
  IN  Norm(Carry([k \in 1..(Len(a) + Len(b)) |-> Dot(k, 1)], 1, 0))

\* a * 2^s.
Shl(a, s) ==
  LET At(i) == IF i \in DOMAIN a THEN a[i] ELSE 0
      Place(q, r) ==
        Norm([j \in 1..(Len(a) + q + 1) |->
                ((At(j - q) * POW2[r + 1]) % POW2[15]) + (At(j - q - 1) \div POW2[15 - r])])
  IN  Place(s \div 14, s % 14)

\* a without its s lowest bits: the integer part of a / 2^s.
Shr(a, s) ==
  LET At(i) == IF i \in DOMAIN a THEN a[i] ELSE 0
      Place(q, r) ==
        Norm([j \in 1..(Len(a) - q) |->
                ((At(j + q) \div POW2[r + 1]) + At(j + q + 1) * POW2[15 - r]) % POW2[15]])
  IN  Place(s \div 14, s % 14)

\* The s lowest bits of a: a modulo 2^s.
Low(a, s) ==
  Norm([j \in DOMAIN a |->
          IF j <= (s \div 14) THEN a[j]
          ELSE IF j = (s \div 14) + 1 THEN a[j] % POW2[(s % 14) + 1]
          ELSE 0])

\* The number of bits of a: the least n with a < 2^n.
BitLen(a) ==
  IF a = <<>> THEN 0
  ELSE 14 * (Len(a) - 1) + Cardinality({k \in 1..14 : POW2[k] <= a[Len(a)]})

\* The natural number of the decimal digits d[lo..hi]: the digits are
\* halved until four or fewer are left.
RECURSIVE NatOfDigits(_, _, _)
NatOfDigits(d, lo, hi) ==
  LET RECURSIVE Small(_)
      Small(k) == IF k < lo THEN 0 ELSE 10 * Small(k - 1) + d[k]
      RECURSIVE Ten(_)
      \* 10^k
      Ten(k) ==
        IF k <= 4 THEN <<<<10>>, <<100>>, <<1000>>, <<10000>>>>[k]
        ELSE NatMul(Ten(k \div 2), Ten(k - k \div 2))
      Halves(mid) ==
        NatAdd(NatMul(NatOfDigits(d, lo, mid), Ten(hi - mid)), NatOfDigits(d, mid + 1, hi))
  IN  IF hi - lo < 4 THEN Norm(<<Small(hi)>>) ELSE Halves((lo + hi) \div 2)

\* The integer of a sign and a natural number (0 has no sign).
SignedInt(neg, mag) == [neg |-> neg /\ mag # <<>>, mag |-> mag]

\* The integer x kept in w bits, two's complement: what a C integer of that
\* width holds after the arithmetic that gave x.
Wrap(x, w) ==
  LET Signed(u) ==
        IF BitLen(u) < w THEN SignedInt(FALSE, u)
        ELSE SignedInt(TRUE, NatSub(Shl(<<1>>, w), u))
      Unsigned(r) == Signed(IF x.neg /\ r # <<>> THEN NatSub(Shl(<<1>>, w), r) ELSE r)
  IN  Unsigned(Low(x.mag, w))

\* The double nearest to p * 2^e, p a natural number; sticky says that the
\* number is a little more than p * 2^e (the rest of a division).  The
\* result keeps 53 bits and no bit under 2^-1074; a tie goes to the even m.
Round53(p, e, sticky) ==
  LET \* q is p without its s lowest bits, half the highest of these
      Cut(s, q, half) ==
        IF half /\ (sticky \/ Low(p, s - 1) # <<>> \/ (q # <<>> /\ q[1] % 2 = 1))
        THEN [m |-> NatScale(q, 1, 1), e |-> e + s]
        ELSE [m |-> q, e |-> e + s]
      Shift(b, s) ==
        IF s <= 0 THEN [m |-> p, e |-> e]
        ELSE IF s > b THEN [m |-> <<>>, e |-> 0]
        ELSE Cut(s, Shr(p, s), Shr(Low(p, s), s - 1) # <<>>)
      Bits(b) == Shift(b, IF b - 53 > (0 - 1074) - e THEN b - 53 ELSE (0 - 1074) - e)
  IN  Bits(BitLen(p))

\* The quotient q and the rest r of a by c (not 0), a digit of the quotient
\* at a time from the place i down, for a below c * 2^(14 * (i + 1)); q is
\* the digits of the places above i.
RECURSIVE NatDivMod(_, _, _, _)
NatDivMod(a, c, i, q) ==
  LET RECURSIVE Most(_, _)
      \* the largest d in lo..hi with c * d at the place i not over a
      Most(lo, hi) ==
        IF lo = hi THEN lo
        ELSE IF NatLess(a, Shl(NatScale(c, (lo + hi + 1) \div 2, 0), 14 * i))
        THEN Most(lo, (lo + hi + 1) \div 2 - 1)
        ELSE Most((lo + hi + 1) \div 2, hi)
      Step(d) == NatDivMod(NatSub(a, Shl(NatScale(c, d, 0), 14 * i)), c, i - 1, <<d>> \o q)
  IN  IF i < 0 THEN [q |-> Norm(q), r |-> a] ELSE Step(Most(0, POW2[15] - 1))

\* x / y of two doubles (y not 0): the quotient of x.m * 2^t by y.m, t chosen
\* to give it 55 bits or more, and the rest of the division as the sticky
\* bit.
DoubleDiv(x, y) ==
  LET Rest(t, qr) == Round53(qr.q, x.e - y.e - t, qr.r # <<>>)
      Quotient(t, a) == Rest(t, NatDivMod(a, y.m, Len(a) - Len(y.m), <<>>))
      Gap(t) == Quotient(t, Shl(x.m, t))
  IN  IF x.m = <<>> THEN [m |-> <<>>, e |-> 0]
      ELSE Gap(IF 55 + BitLen(y.m) - BitLen(x.m) > 0
               THEN 55 + BitLen(y.m) - BitLen(x.m) ELSE 0)

\* The table e[] of pandas' parser, the doubles 1e0 .. 1e308, each <<m, e>>.
E10 ==
  <<
     <<<<1>>, 0>>,
     <<<<5>>, 1>>,
     <<<<25>>, 2>>,
     <<<<125>>, 3>>,
     <<<<625>>, 4>>,
     <<<<3125>>, 5>>,
     <<<<15625>>, 6>>,
     <<<<12589, 4>>, 7>>,
     <<<<13793, 23>>, 8>>,
     <<<<3429, 119>>, 9>>,
     <<<<761, 596>>, 10>>,
     <<<<3805, 2980>>, 11>>,
     <<<<2641, 14901>>, 12>>,
     <<<<13205, 8969, 4>>, 13>>,
     <<<<489, 12081, 22>>, 14>>,
     <<<<2445, 11253, 113>>, 15>>,
     <<<<12225, 7113, 568>>, 16>>,
     <<<<11973, 2800, 2842>>, 17>>,
     <<<<10713, 14003, 14210>>, 18>>,
     <<<<4413, 4482, 5518, 4>>, 19>>,
     <<<<5681, 6027, 11207, 21>>, 20>>,
     <<<<12021, 13752, 6884, 108>>, 21>>,
     <<<<10953, 3227, 1656, 542>>, 22>>,
     <<<<9595, 4034, 10262, 677>>, 25>>,
     <<<<10093, 14809, 8461, 423>>, 29>>,
     <<<<657, 12448, 12962, 1058>>, 31>>,
     <<<<821, 7368, 8011, 1323>>, 34>>,
     <<<<513, 2557, 2959, 827>>, 38>>,
     <<<<4737, 15484, 15986, 1033>>, 41>>,
     <<<<5921, 11163, 7695, 1292>>, 44>>,
     <<<<1653, 13121, 13001, 807>>, 48>>,
     <<<<11273, 2056, 14270, 504>>, 52>>,
     <<<<11799, 5141, 2907, 1262>>, 54>>,
     <<<<12903, 8774, 7052, 394>>, 59>>,
     <<<<15363, 11105, 2494, 1972>>, 60>>,
     <<<<9921, 9614, 4875, 616>>, 65>>,
     <<<<8419, 15844, 12188, 1540>>, 67>>,
     <<<<10523, 3421, 15236, 1925>>, 70>>,
     <<<<8625, 10330, 11570, 1203>>, 74>>,
     <<<<2589, 4721, 10367, 1504>>, 77>>,
     <<<<7333, 1805, 12959, 1880>>, 80>>,
     <<<<6631, 7272, 8099, 1175>>, 84>>,
     <<<<8289, 4994, 6028, 1469>>, 87>>,
     <<<<2169, 6243, 11631, 1836>>, 90>>,
     <<<<8019, 6607, 16153, 286>>, 96>>,
     <<<<11855, 8326, 7615, 717>>, 98>>,
     <<<<6627, 6312, 13615, 896>>, 101>>,
     <<<<10263, 13236, 4254, 280>>, 106>>,
     <<<<2163, 647, 4890, 1401>>, 107>>,
     <<<<14991, 9000, 10208, 1751>>, 110>>,
     <<<<12877, 2812, 6262, 547>>, 115>>,
     <<<<14327, 10093, 6260, 21>>, 123>>,
     <<<<6099, 1317, 14919, 106>>, 124>>,
     <<<<14111, 6586, 9059, 534>>, 125>>,
     <<<<9447, 4137, 3132, 668>>, 128>>,
     <<<<15425, 10343, 7830, 1670>>, 130>>,
     <<<<15785, 2368, 798, 1044>>, 134>>,
     <<<<3347, 11153, 997, 1305>>, 137>>,
     <<<<8279, 1653, 5343, 1631>>, 140>>,
     <<<<14445, 14354, 2582, 2039>>, 143>>,
     <<<<15569, 9410, 10131, 318>>, 149>>,
     <<<<12309, 14286, 1505, 1593>>, 150>>,
     <<<<7195, 5570, 5978, 1991>>, 153>>,
     <<<<8593, 7577, 9880, 1244>>, 157>>,
     <<<<14837, 9471, 12350, 1555>>, 160>>,
     <<<<15417, 1823, 5671, 972>>, 164>>,
     <<<<15175, 14567, 7088, 1215>>, 167>>,
     <<<<14873, 1825, 4765, 1519>>, 170>>,
     <<<<6303, 6378, 1860, 1899>>, 173>>,
     <<<<10201, 11236, 12066, 296>>, 179>>,
     <<<<1853, 7031, 11181, 1483>>, 180>>,
     <<<<3651, 3221, 10662, 463>>, 185>>,
     <<<<935, 8053, 2079, 1159>>, 187>>,
     <<<<5265, 5970, 14887, 1448>>, 190>>,
     <<<<14773, 3366, 2225, 1811>>, 193>>,
     <<<<5137, 12344, 15726, 1131>>, 197>>,
     <<<<3211, 3619, 7781, 707>>, 201>>,
     <<<<16219, 855, 11261, 1768>>, 203>>,
     <<<<16281, 2582, 7038, 1105>>, 207>>,
     <<<<12159, 11420, 12893, 1381>>, 210>>,
     <<<<15199, 1987, 3829, 1727>>, 213>>,
     <<<<7451, 3290, 8537, 1079>>, 217>>,
     <<<<8753, 12296, 11479, 674>>, 221>>,
     <<<<5499, 6165, 12315, 1686>>, 223>>,
     <<<<5485, 1805, 3601, 1054>>, 227>>,
     <<<<1369, 11034, 11826, 164>>, 233>>,
     <<<<6845, 6018, 9981, 823>>, 234>>,
     <<<<12379, 2904, 6191, 257>>, 239>>,
     <<<<12743, 14523, 14571, 1286>>, 240>>,
     <<<<11833, 14058, 10022, 1608>>, 243>>,
     <<<<6599, 9381, 12528, 2010>>, 246>>,
     <<<<6173, 5863, 11926, 1256>>, 250>>,
     <<<<5001, 16168, 11918, 392>>, 255>>,
     <<<<8621, 15305, 10442, 1963>>, 256>>,
     <<<<8003, 11607, 13407, 306>>, 262>>,
     <<<<7247, 8885, 1502, 1534>>, 263>>,
     <<<<13155, 2914, 10070, 1917>>, 266>>,
     <<<<14351, 15246, 4170, 599>>, 271>>,
     <<<<3109, 5349, 2235, 1498>>, 273>>,
     <<<<3991, 1295, 5493, 936>>, 277>>,
     <<<<893, 5715, 6866, 1170>>, 280>>,
     <<<<15639, 12025, 12385, 365>>, 285>>,
     <<<<12659, 10977, 12776, 1828>>, 286>>,
     <<<<10461, 2905, 14310, 142>>, 293>>,
     <<<<3153, 14528, 6014, 714>>, 294>>,
     <<<<3941, 9968, 15710, 892>>, 297>>,
     <<<<4927, 4268, 3254, 1116>>, 300>>,
     <<<<11271, 14955, 10225, 697>>, 304>>,
     <<<<9993, 6406, 494, 872>>, 307>>,
     <<<<4299, 16200, 617, 1090>>, 310>>,
     <<<<2687, 3981, 4482, 681>>, 314>>,
     <<<<14909, 9952, 3013, 1703>>, 316>>,
     <<<<4659, 12326, 4013, 532>>, 321>>,
     <<<<12251, 6448, 6478, 10>>, 330>>,
     <<<<12103, 15859, 16007, 51>>, 331>>,
     <<<<11363, 13762, 14503, 259>>, 332>>,
     <<<<7663, 3277, 6983, 1299>>, 333>>,
     <<<<13675, 0, 4633, 1624>>, 336>>,
     <<<<709, 4097, 5791, 2030>>, 339>>,
     <<<<10683, 8704, 15907, 1268>>, 343>>,
     <<<<6677, 3392, 1750, 793>>, 347>>,
     <<<<309, 8481, 12567, 1982>>, 349>>,
     <<<<10433, 11444, 3758, 1239>>, 353>>,
     <<<<13041, 6113, 602, 1549>>, 356>>,
     <<<<4013, 15834, 4848, 1936>>, 359>>,
     <<<<1651, 10666, 8949, 302>>, 365>>,
     <<<<8255, 4178, 11980, 1512>>, 366>>,
     <<<<2127, 5223, 14975, 1890>>, 369>>,
     <<<<3737, 12896, 14919, 590>>, 374>>,
     <<<<4671, 12024, 10457, 738>>, 377>>,
     <<<<5839, 2742, 4880, 923>>, 380>>,
     <<<<15937, 1713, 1002, 577>>, 384>>,
     <<<<15267, 4284, 10697, 1442>>, 386>>,
     <<<<675, 14651, 13582, 450>>, 391>>,
     <<<<9879, 3859, 1189, 1127>>, 393>>,
     <<<<8253, 8920, 13774, 1408>>, 396>>,
     <<<<10317, 2958, 834, 1761>>, 399>>,
     <<<<9363, 9587, 12960, 68>>, 407>>,
     <<<<14047, 15169, 15650, 343>>, 408>>,
     <<<<4699, 10313, 12718, 1719>>, 409>>,
     <<<<13177, 2349, 14093, 1074>>, 413>>,
     <<<<4183, 7033, 9424, 1343>>, 416>>,
     <<<<9325, 8791, 7684, 1679>>, 419>>,
     <<<<11185, 11613, 6832, 262>>, 425>>,
     <<<<6773, 8916, 1395, 1312>>, 426>>,
     <<<<12425, 3524, 872, 820>>, 430>>,
     <<<<15531, 4405, 1090, 1025>>, 433>>,
     <<<<11755, 6849, 10921, 640>>, 437>>,
     <<<<1203, 14521, 6825, 400>>, 441>>,
     <<<<6015, 7069, 1361, 2002>>, 442>>,
     <<<<5807, 14658, 4946, 1251>>, 446>>,
     <<<<15451, 10130, 2087, 1564>>, 449>>,
     <<<<13753, 12475, 9496, 977>>, 453>>,
     <<<<13095, 15594, 15966, 1221>>, 456>>,
     <<<<8177, 11301, 7670, 1527>>, 459>>,
     <<<<14317, 5934, 5492, 1909>>, 462>>,
     <<<<5309, 2975, 5466, 298>>, 468>>,
     <<<<10161, 14876, 10946, 1491>>, 469>>,
     <<<<12701, 10403, 9587, 1864>>, 472>>,
     <<<<2945, 2227, 11188, 582>>, 477>>,
     <<<<15555, 5567, 11586, 1456>>, 479>>,
     <<<<16125, 11979, 3620, 455>>, 484>>,
     <<<<12207, 7839, 4203, 142>>, 489>>,
     <<<<11883, 6430, 4633, 711>>, 490>>,
     <<<<3331, 14259, 9039, 444>>, 494>>,
     <<<<135, 11072, 6215, 1111>>, 496>>,
     <<<<169, 9744, 3673, 1389>>, 499>>,
     <<<<53, 16357, 2171, 434>>, 504>>,
     <<<<2081, 8175, 5453, 271>>, 508>>,
     <<<<10405, 8107, 10883, 1356>>, 509>>,
     <<<<8911, 6038, 13604, 1695>>, 512>>,
     <<<<1473, 11966, 14646, 1059>>, 516>>,
     <<<<13209, 3382, 7106, 662>>, 520>>,
     <<<<8319, 12420, 690, 828>>, 523>>,
     <<<<10399, 7333, 863, 1035>>, 526>>,
     <<<<8547, 10727, 14875, 646>>, 530>>,
     <<<<5743, 10520, 2600, 202>>, 535>>,
     <<<<12331, 3449, 13003, 1010>>, 536>>,
     <<<<1563, 108, 12223, 631>>, 540>>,
     <<<<3907, 8462, 5981, 1579>>, 542>>,
     <<<<7365, 3668, 9037, 493>>, 547>>,
     <<<<12795, 4340, 7696, 308>>, 551>>,
     <<<<16189, 2712, 13002, 192>>, 555>>,
     <<<<14433, 10745, 15333, 1927>>, 555>>,
     <<<<2877, 8764, 15727, 1204>>, 559>>,
     <<<<13187, 14002, 9010, 376>>, 564>>,
     <<<<399, 4478, 12286, 1882>>, 565>>,
     <<<<12537, 15086, 11774, 1176>>, 569>>,
     <<<<5031, 13621, 14127, 183>>, 575>>,
     <<<<8771, 2570, 5103, 919>>, 576>>,
     <<<<4789, 12067, 4666, 287>>, 581>>,
     <<<<7561, 11184, 6949, 1436>>, 582>>,
     <<<<9451, 1692, 8687, 1795>>, 585>>,
     <<<<14099, 7201, 3381, 1122>>, 589>>,
     <<<<5335, 13098, 12418, 1402>>, 592>>,
     <<<<14861, 8180, 7331, 1753>>, 595>>,
     <<<<2185, 12671, 16188, 136>>, 602>>,
     <<<<10925, 14203, 15407, 684>>, 603>>,
     <<<<2737, 10933, 5751, 1712>>, 605>>,
     <<<<3759, 12977, 3594, 1070>>, 609>>,
     <<<<12589, 12206, 14534, 668>>, 613>>,
     <<<<15089, 14132, 3568, 1672>>, 615>>,
     <<<<8811, 4416, 9307, 522>>, 620>>,
     <<<<5507, 712, 9913, 326>>, 624>>,
     <<<<11151, 3561, 413, 1633>>, 625>>,
     <<<<1651, 8548, 4612, 2041>>, 628>>,
     <<<<13441, 5787, 7784, 159>>, 635>>,
     <<<<1669, 12555, 6153, 797>>, 636>>,
     <<<<15379, 1702, 5894, 498>>, 640>>,
     <<<<1379, 15626, 14232, 77>>, 646>>,
     <<<<11195, 1225, 6131, 1557>>, 645>>,
     <<<<853, 15102, 5879, 973>>, 649>>,
     <<<<12821, 15582, 5722, 608>>, 653>>,
     <<<<15669, 6188, 14307, 1520>>, 655>>,
     <<<<1601, 1820, 8942, 950>>, 659>>,
     <<<<2001, 10467, 2985, 1188>>, 662>>,
     <<<<15587, 397, 10058, 742>>, 666>>,
     <<<<14391, 994, 8761, 1856>>, 668>>,
     <<<<13091, 10861, 5475, 1160>>, 672>>,
     <<<<4075, 9481, 6844, 1450>>, 675>>,
     <<<<12787, 14117, 8373, 906>>, 679>>,
     <<<<15591, 3406, 13454, 70>>, 686>>,
     <<<<12419, 650, 1735, 354>>, 687>>,
     <<<<12943, 3253, 8675, 1770>>, 688>>,
     <<<<10137, 16369, 9517, 1106>>, 692>>,
     <<<<383, 8174, 3705, 1383>>, 695>>,
     <<<<8671, 14313, 535, 1729>>, 698>>,
     <<<<8011, 11964, 2643, 270>>, 704>>,
     <<<<3643, 5335, 6609, 675>>, 706>>,
     <<<<8421, 13574, 2082, 422>>, 710>>,
     <<<<4669, 1168, 5207, 1055>>, 712>>,
     <<<<1459, 3437, 12891, 329>>, 717>>,
     <<<<7295, 801, 15304, 1648>>, 718>>,
     <<<<14799, 500, 9565, 1030>>, 722>>,
     <<<<2115, 4722, 3764, 1288>>, 725>>,
     <<<<10901, 5571, 9368, 402>>, 730>>,
     <<<<5353, 11474, 14073, 2012>>, 731>>,
     <<<<7441, 1027, 604, 1258>>, 735>>,
     <<<<2603, 8834, 4473, 786>>, 739>>,
     <<<<6507, 13893, 11183, 1965>>, 741>>,
     <<<<6115, 14827, 9037, 1228>>, 745>>,
     <<<<9079, 5657, 15112, 383>>, 750>>,
     <<<<12627, 11903, 10025, 1919>>, 751>>,
     <<<<15797, 8515, 15390, 299>>, 757>>,
     <<<<13449, 9811, 11416, 1499>>, 758>>,
     <<<<12715, 12264, 10174, 1874>>, 761>>,
     <<<<7947, 3569, 10455, 1171>>, 765>>,
     <<<<14029, 365, 8973, 1464>>, 768>>,
     <<<<5249, 4553, 11216, 1830>>, 771>>,
     <<<<14157, 2225, 8374, 71>>, 779>>,
     <<<<5249, 11129, 9102, 357>>, 780>>,
     <<<<4931, 11439, 14564, 893>>, 782>>,
     <<<<12805, 7670, 5575, 279>>, 787>>,
     <<<<3907, 10938, 9628, 174>>, 791>>,
     <<<<3151, 5539, 15375, 872>>, 792>>,
     <<<<16227, 2827, 2835, 1091>>, 795>>,
     <<<<12239, 16243, 16245, 340>>, 800>>,
     <<<<12043, 15682, 15693, 1704>>, 801>>,
     <<<<11623, 11849, 9808, 1065>>, 805>>,
     <<<<7203, 9447, 13311, 20>>, 814>>,
     <<<<2801, 2131, 16350, 1664>>, 811>>,
     <<<<16235, 6809, 5109, 520>>, 816>>,
     <<<<4003, 6304, 3193, 325>>, 820>>,
     <<<<3631, 15137, 15966, 1625>>, 821>>,
     <<<<8635, 10729, 7670, 2032>>, 824>>,
     <<<<15637, 2609, 4794, 1270>>, 828>>,
     <<<<3629, 5727, 15284, 793>>, 832>>,
     <<<<14391, 2942, 852, 124>>, 838>>,
     <<<<6419, 14714, 4260, 620>>, 839>>,
     <<<<2027, 12539, 15001, 96>>, 845>>,
     <<<<10135, 13543, 9472, 484>>, 846>>,
     <<<<761, 1091, 7298, 1211>>, 848>>,
     <<<<7799, 5290, 4724, 189>>, 854>>,
     <<<<12453, 3752, 14475, 1892>>, 854>>,
     <<<<7783, 297, 855, 1183>>, 858>>,
     <<<<13825, 12659, 13356, 1478>>, 861>>,
     <<<<6593, 16104, 4251, 924>>, 865>>,
     <<<<8241, 16034, 5314, 1155>>, 868>>,
     <<<<2109, 11851, 2547, 1444>>, 871>>,
     <<<<14925, 10717, 3184, 1805>>, 874>>,
     <<<<10951, 6562, 8444, 70>>, 882>>,
     <<<<5603, 45, 9454, 352>>, 883>>,
     <<<<11631, 226, 14502, 1762>>, 884>>,
     <<<<11365, 12429, 13159, 1101>>, 888>>,
     <<<<1919, 11441, 4161, 1377>>, 891>>,
     <<<<11439, 1006, 12841, 860>>, 895>>,
     <<<<6107, 5354, 16051, 1075>>, 898>>,
     <<<<7913, 1298, 7984, 672>>, 902>>,
     <<<<1699, 1623, 9980, 840>>, 905>>,
     <<<<3603, 12795, 11310, 262>>, 910>>,
     <<<<1631, 14824, 7401, 1313>>, 911>>,
     <<<<1019, 3121, 14866, 820>>, 915>>,
     <<<<10877, 6046, 1099, 513>>, 919>>,
     <<<<9543, 9057, 5463, 160>>, 924>>,
     <<<<13511, 8655, 5483, 1603>>, 924>>,
     <<<<7743, 13128, 8536, 250>>, 930>>,
     <<<<5947, 106, 9916, 1252>>, 931>>,
     <<<<7813, 8258, 14389, 782>>, 935>>,
     <<<<8979, 7209, 4897, 489>>, 939>>,
     <<<<8059, 3686, 7421, 76>>, 945>>,
     <<<<7527, 2048, 4338, 382>>, 946>>,
     <<<<4867, 10242, 5306, 1911>>, 947>>,
     <<<<11761, 5248, 4730, 597>>, 952>>,
     <<<<14701, 14752, 10008, 746>>, 955>>,
     <<<<2297, 14593, 10779, 116>>, 961>>,
     <<<<11485, 7429, 4747, 583>>, 962>>,
     <<<<4137, 10382, 3676, 1458>>, 964>>,
     <<<<13363, 12977, 12787, 1822>>, 967>>,
     <<<<7749, 12477, 9849, 35>>, 976>>
  >>

(***************************************************************************)
(* pandas values.  A cell is a string, an integer, or the missing value    *)
(* (None / NaN).  A frame is its column names and its rows of cells.       *)
(***************************************************************************)
StrCell(s) == [t |-> "str", s |-> s, v |-> SignedInt(FALSE, <<>>)]

\* The cell of the integer n (a sign and a natural number).
IntCell(n) == [t |-> "int", s |-> <<>>, v |-> n]

NoFrame == [columns |-> <<>>, rows |-> <<>>]

\* pd.DataFrame(rows, columns=header) where the widest row has as many
\* fields as the header: shorter rows are filled with None.
DataFrame(rows, header) ==
  LET NaCell == [t |-> "na", s |-> <<>>, v |-> SignedInt(FALSE, <<>>)]
  IN  [columns |-> header,
       rows |-> [i \in DOMAIN rows |->
                   [j \in DOMAIN header |->
                      IF j <= Len(rows[i]) THEN StrCell(rows[i][j]) ELSE NaCell]]]

\* Positions of the columns with the given name.
ColumnsNamed(df, name) == {j \in DOMAIN df.columns : df.columns[j] = name}

\* df[name] is a Series only when exactly one column has the name: no such
\* column raises KeyError, several give a DataFrame (pd.to_numeric then
\* raises TypeError, .str raises AttributeError).
SeriesError(df, name) ==
  IF ColumnsNamed(df, name) = {} THEN "KeyError"
  ELSE IF Cardinality(ColumnsNamed(df, name)) > 1 THEN "NotASeries"
  ELSE "none"

ColumnOf(df, name) == CHOOSE j \in ColumnsNamed(df, name) : TRUE

(***************************************************************************)
(* Numeric coercion (lines 378-393)                                        *)
(***************************************************************************)
\* Line 379
all_cols_except_text ==
  {SENTINEL, COL_CODE, NAME_COL, COL_MARK, COL_PARTY_CODE, COL_PARTY, COL_STATUS,
   COL_FULLNAME, COL_SLOT}

\* Lines 380-385: '順位', then every column not in the text list, in order.
cols_to_convert(df) ==
  <<SENTINEL>> \o SelectSeq(df.columns, LAMBDA c : c \notin all_cols_except_text)

\* The digits the number parser keeps, as the C code builds the number from
\* them in a double: number = number * 10. + digit for every one of the
\* decimal digits m, two operations a digit.  n is the number after the
\* first j - 1 operations, an integer; one that no double holds (it has a
\* bit under its 53 highest) is rounded to the nearest double first.
RECURSIVE Accumulate(_, _, _)
Accumulate(m, j, n) ==
  LET Back(r) == Shl(r.m, r.e)
  IN  IF BitLen(n) > 53 /\ Low(n, BitLen(n) - 53) # <<>>
      THEN Accumulate(m, j, Back(Round53(n, 0, FALSE)))
      ELSE IF j > 2 * Len(m) THEN n
      ELSE IF j % 2 = 1 THEN Accumulate(m, j + 1, NatScale(n, 10, 0))
      ELSE Accumulate(m, j + 1, NatScale(n, 1, m[j \div 2] - 48))

\* The double x times the power of ten k, -616 <= k <= 308, as the C code
\* computes it: one multiplication or one division by a double of the table
\* e[], and two divisions, the second by 1e308, for a power under -308.
RECURSIVE Scaled(_, _)
Scaled(x, k) ==
  LET Ten(n) == [m |-> E10[n + 1][1], e |-> E10[n + 1][2]]
      \* x * t of two doubles
      Times(t) == Round53(NatMul(x.m, t.m), x.e + t.e, FALSE)
  IN  IF k > 0 THEN Times(Ten(k))
      ELSE DoubleDiv(IF k < 0 - 308 THEN Scaled(x, k + 308) ELSE x,
                     Ten(IF k < 0 - 308 THEN 308 ELSE 0 - k))

\* The parts the number parser of pd.to_numeric finds in a string
\* (precise_xstrtod of pandas, called with decimal '.', exponent mark 'E',
\* no thousands separator): white space, a sign, digits, a fraction, an
\* exponent, white space.  It keeps 17 digits of the number (a further digit
\* before the point counts as a power of ten, a further one after it is
\* dropped) and 17 of the exponent.  No separator is skipped.  neg is the
\* sign; some says the number has a digit; dot and exp that it has a point
\* and an exponent mark; m is the digits kept and ndig the number of digits
\* before the point; eneg and edigits are the sign and the digits of the
\* exponent; rest says that something other than white space follows.
ScanNumber(s) ==
  LET Space == {32} \cup 9..13
      Digit == 48..57
      \* The exponent: its digits are s[p5..p6-1]; the number ends at p6,
      \* or at the exponent mark p4 when the mark has no digit.
      Power(neg, some, dot, m, ndig, p4, exp, eneg, p5, p6) ==
        [neg |-> neg, some |-> some, dot |-> dot, exp |-> exp, m |-> m,
         ndig |-> ndig, eneg |-> eneg,
         edigits |-> [i \in 1..(IF exp THEN p6 - p5 ELSE 0) |-> s[p5 + i - 1] - 48],
         rest |-> \/ (exp /\ p6 = p5)
                  \/ NextNot(s, IF exp THEN p6 ELSE p4, Space) <= Len(s)]
      Exponent(neg, some, dot, m, ndig, p4, exp, eneg, p5, q) ==
        Power(neg, some, dot, m, ndig, p4, exp, eneg, p5,
              IF q - p5 > 17 THEN p5 + 17 ELSE q)
      \* The exponent mark at p4 and the sign after it.
      Mark(neg, some, dot, m, ndig, p4, exp, esgn) ==
        Exponent(neg, some, dot, m, ndig, p4, exp, esgn /\ s[p4 + 1] = 45,
                 IF esgn THEN p4 + 2 ELSE p4 + 1,
                 NextNot(s, IF esgn THEN p4 + 2 ELSE p4 + 1, Digit))
      \* The digits kept: int before the point, then those after it that
      \* find room among the 17.
      Mantissa(neg, dot, p2, p3, p4, int) ==
        Mark(neg, p3 > p2 \/ p4 > p3 + 1, dot,
             IF ~dot THEN int
             ELSE int \o SubSeq(s, p3 + 1, IF p4 - p3 - 1 > 17 - Len(int)
                                           THEN p3 + 17 - Len(int) ELSE p4 - 1),
             p3 - p2, p4,
             p4 <= Len(s) /\ s[p4] \in {69, 101},
             /\ p4 <= Len(s) /\ s[p4] \in {69, 101}
             /\ p4 + 1 <= Len(s) /\ s[p4 + 1] \in {43, 45})
      \* The digits s[p2..p3-1] before the point and s[p3+1..p4-1] after it.
      Fraction(neg, dot, p2, p3, p4) ==
        Mantissa(neg, dot, p2, p3, p4,
                 SubSeq(s, p2, IF p3 - p2 > 17 THEN p2 + 16 ELSE p3 - 1))
      Point(neg, p2, p3) ==
        Fraction(neg, p3 <= Len(s) /\ s[p3] = 46, p2, p3,
                 IF p3 <= Len(s) /\ s[p3] = 46 THEN NextNot(s, p3 + 1, Digit) ELSE p3)
      Whole(neg, p2) == Point(neg, p2, NextNot(s, p2, Digit))
      \* The sign at p1, after the white space.
      Sign(p1) ==
        Whole(p1 <= Len(s) /\ s[p1] = 45,
              IF p1 <= Len(s) /\ s[p1] \in {43, 45} THEN p1 + 1 ELSE p1)
  IN  Sign(NextNot(s, 1, Space))

\* The power of ten of the scanned number r, as the C int holds it (32 bits,
\* two's complement): the digits before the point that were not kept or,
\* taken off, the digits kept after it, plus or minus the exponent.
PowerOfTen(r) ==
  LET Sum(a, b) ==
        IF a.neg = b.neg THEN SignedInt(a.neg, NatAdd(a.mag, b.mag))
        ELSE IF NatLess(a.mag, b.mag) THEN SignedInt(b.neg, NatSub(b.mag, a.mag))
        ELSE SignedInt(a.neg, NatSub(a.mag, b.mag))
  IN  Wrap(Sum(SignedInt(r.ndig < Len(r.m),
                         NatScale(<<>>, 1, IF r.ndig < Len(r.m) THEN Len(r.m) - r.ndig
                                           ELSE r.ndig - Len(r.m))),
               SignedInt(r.eneg, NatOfDigits(r.edigits, 1, Len(r.edigits)))),
           32)

\* What the parser gives for the scanned number r with the power of ten x.
\* It refuses (ok is FALSE) a text without a digit, an exponent mark without
\* a digit, a power of ten over 308, a result that is infinite (2^1024 or
\* more) and a text with anything after the number.  maybe_int says that
\* the text had neither point nor exponent.  The number is built in doubles (Accumulate,
\* Scaled) and neg is its sign; it is 0, without a sign, for a power of ten
\* under -616, and 0 for a number the parser refuses.
ParsedNumber(r, x) ==
  LET Result(number) ==
        [ok |-> /\ r.some
                /\ ~r.rest
                /\ ~(~x.neg /\ NatLess(<<308>>, x.mag))
                /\ BitLen(number.m) + number.e <= 1024,
         maybe_int |-> ~r.dot /\ ~r.exp,
         neg |-> r.neg /\ ~(x.neg /\ NatLess(<<616>>, x.mag)),
         number |-> number]
  IN  Result(IF \/ ~r.some
                \/ (~x.neg /\ NatLess(<<308>>, x.mag))
                \/ (x.neg /\ NatLess(<<616>>, x.mag))
             THEN [m |-> <<>>, e |-> 0]
             ELSE Scaled([m |-> Accumulate(r.m, 1, <<>>), e |-> 0],
                         IF x.mag = <<>> THEN 0
                         ELSE IF x.neg THEN 0 - x.mag[1] ELSE x.mag[1]))

precise_xstrtod(s) == ParsedNumber(ScanNumber(s), PowerOfTen(ScanNumber(s)))

\* What pd.to_numeric(errors='coerce') makes of the text data, whole when it
\* is all of the cell, x what the parser gives for it.  kind is "int" for a
\* text of digits alone, which int(val) then reads from the whole cell (v);
\* "float" for another number; "inf" for an infinite value; "nan" for
\* every text that is no number.  f is the double the parser gives an "int"
\* and a "float": its sign and m * 2^e.  inf and infinity are the words
\* floatify reads as an infinite value, with a sign or without, in either
\* case of the letters.
FloatOfText(data, whole, x) ==
  LET InfWords == {<<105, 110, 102>>, <<105, 110, 102, 105, 110, 105, 116, 121>>}
      Nan == [kind |-> "nan", v |-> SignedInt(FALSE, <<>>),
              f |-> [neg |-> FALSE, m |-> <<>>, e |-> 0]]
      \* word is data in lower case
      Number(word) ==
        IF x.ok /\ x.maybe_int /\ whole
        THEN [kind |-> "int",
              v |-> SignedInt(x.neg,
                              NatOfDigits([i \in DOMAIN SelectSeq(data, IsAsciiDigit) |->
                                             SelectSeq(data, IsAsciiDigit)[i] - 48],
                                          1, Len(SelectSeq(data, IsAsciiDigit)))),
              f |-> [neg |-> x.neg, m |-> x.number.m, e |-> x.number.e]]
        ELSE IF x.ok /\ ~x.maybe_int
        THEN [kind |-> "float", v |-> SignedInt(FALSE, <<>>),
              f |-> [neg |-> x.neg, m |-> x.number.m, e |-> x.number.e]]
        ELSE IF ~x.ok /\ (word \in InfWords
                          \/ (word # <<>> /\ word[1] \in {43, 45}
                              /\ Tail(word) \in InfWords))
        THEN [Nan EXCEPT !.kind = "inf"]
        ELSE Nan
  IN  Number([i \in DOMAIN data |->
                IF data[i] >= 65 /\ data[i] <= 90 THEN data[i] + 32 ELSE data[i]])

\* What pd.to_numeric(errors='coerce') makes of one cell (floatify and
\* maybe_convert_numeric of pandas): an integer is kept, with the double
\* nearest to it; the missing value and the empty string are "nan"; the
\* parser is given every other text as a C string, which ends at its first
\* U+0000.
floatify(cell) ==
  LET nul == {i \in DOMAIN cell.s : cell.s[i] = 0}
      Text(data) == FloatOfText(data, nul = {}, precise_xstrtod(data))
      Kept(x) == [kind |-> "int", v |-> cell.v, f |-> [neg |-> cell.v.neg, m |-> x.m, e |-> x.e]]
  IN  IF cell.t = "int" THEN Kept(Round53(cell.v.mag, 0, FALSE))
      ELSE IF cell.t = "na" \/ cell.s = <<>>
      THEN [kind |-> "nan", v |-> SignedInt(FALSE, <<>>),
            f |-> [neg |-> FALSE, m |-> <<>>, e |-> 0]]
      ELSE Text(IF nul = {} THEN cell.s ELSE SubSeq(cell.s, 1, MinOf(nul) - 1))

\* The dtype pd.to_numeric gives the column at position j: float64 when a
\* cell is no integer, or an integer outside -2^63 .. 2^64-1, or when the
\* column has both a negative integer and one of 2^63 or more; uint64 when
\* an integer is 2^63 or more; int64 otherwise.
ColumnType(df, j) ==
  LET Of(cells) ==
        IF \/ \E c \in cells : c.kind # "int"
           \/ \E c \in cells : NatLess(Shl(<<1>>, 63), c.v.mag) /\ c.v.neg
           \/ \E c \in cells : BitLen(c.v.mag) > 64
           \/ \E c, d \in cells : c.v.neg /\ BitLen(d.v.mag) > 63 /\ ~d.v.neg
        THEN "float64"
        ELSE IF \E c \in cells : BitLen(c.v.mag) > 63 /\ ~c.v.neg
        THEN "uint64"
        ELSE "int64"
  IN  Of({floatify(df.rows[i][j]) : i \in DOMAIN df.rows})

\* The C compilers' outcomes of a double outside int64 cast to int64, which
\* C leaves undefined: the smallest int64 for every such value on x86-64,
\* the nearest int64 on aarch64.
Builds == {"x86-64", "aarch64"}

\* astype(int) on one double of a float64 column: the integer part, in int64.
Int64Cast(f, build) ==
  LET Undefined ==
        IF build = "aarch64" /\ ~f.neg THEN SignedInt(FALSE, NatSub(Shl(<<1>>, 63), <<1>>))
        ELSE SignedInt(TRUE, Shl(<<1>>, 63))
      Whole(t) ==
        IF BitLen(t) <= 63 \/ (f.neg /\ t = Shl(<<1>>, 63)) THEN SignedInt(f.neg, t)
        ELSE Undefined
  IN  IF f.m = <<>> THEN SignedInt(FALSE, <<>>)
      ELSE IF f.e > 63 THEN Undefined
      ELSE IF f.e >= 0 THEN Whole(Shl(f.m, f.e))
      ELSE Whole(Shr(f.m, 0 - f.e))

\* pd.to_numeric(errors='coerce'), fillna(0) and astype(int) on the cell at
\* row i of the column at position j.  An int64 column keeps its integers; a
\* uint64 column is cast to int64, which keeps the 64 bits; in a float64
\* column NaN becomes 0 and every other double its integer part.  int is
\* taken as int64 (numpy on Linux and macOS, numpy 2 everywhere).
ToInt(df, i, j, build) ==
  LET Cell(c, type) ==
        IF type = "int64" THEN c.v
        ELSE IF type = "uint64" THEN Wrap(c.v, 64)
        ELSE IF c.kind \in {"nan", "inf"} THEN SignedInt(FALSE, <<>>)
        ELSE Int64Cast(c.f, build)
  IN  Cell(floatify(df.rows[i][j]), ColumnType(df, j))

\* What the pass of the loop of lines 385-393 for the label raises: df[col]
\* is a DataFrame when several columns carry the label, and pd.to_numeric
\* raises TypeError (line 389); astype(int) raises IntCastingNaNError, a
\* ValueError, for a column with an infinite value (line 393).
LabelError(df, label) ==
  IF Cardinality(ColumnsNamed(df, label)) > 1 THEN "TypeError"
  ELSE IF \E j \in ColumnsNamed(df, label) : \E i \in DOMAIN df.rows :
            floatify(df.rows[i][j]).kind = "inf"
  THEN "ValueError"
  ELSE "none"

\* The first error the loop of lines 385-393 meets, "none" if it meets none.
ConvertError(df) ==
  LET labels == cols_to_convert(df)
      bad    == {k \in DOMAIN labels : LabelError(df, labels[k]) # "none"}
  IN  IF bad = {} THEN "none" ELSE LabelError(df, labels[MinOf(bad)])

\* Lines 385-393 on one frame: the loop assigns column by column (line 393),
\* so every column named in cols_to_convert before the first name that
\* raises is integers, and every one of them when none raises.
ConvertNumeric(df, build) ==
  LET labels == cols_to_convert(df)
      bad    == {k \in DOMAIN labels : LabelError(df, labels[k]) # "none"}
      done   == IF bad = {} THEN labels ELSE SubSeq(labels, 1, MinOf(bad) - 1)
  IN  [df EXCEPT !.rows =
         [i \in DOMAIN df.rows |->
            [j \in DOMAIN df.columns |->
               IF df.columns[j] \in Range(done)
               THEN IntCell(ToInt(df, i, j, build))
               ELSE df.rows[i][j]]]]

(***************************************************************************)
(* Winner and loser selection (lines 410-431)                              *)
(***************************************************************************)
\* series.str.strip().fillna(''): the stripped string, '' for a missing value.
StrippedOrEmpty(cell) == IF cell.t = "str" THEN Strip(cell.s) ELSE <<>>

\* df[[columns at the positions keep]], rows renumbered from 0.
Project(df, rows, keep) ==
  [columns |-> [k \in DOMAIN keep |-> df.columns[keep[k]]],
   rows |-> [i \in DOMAIN rows |-> [k \in DOMAIN keep |-> rows[i][keep[k]]]]]

Positions(n) == [j \in 1..n |-> j]

\* Line 414
cols_to_drop_tou == {COL_CODE, COL_MARK, COL_PARTY_CODE}

\* Line 427
cols_to_keep_raku == <<SENTINEL, NAME_COL, COL_TOTAL>>

\* The projection of lines 414-415 without the filter of line 410.
MakeTouUnfiltered(df) ==
  Project(df, df.rows,
          SelectSeq(Positions(Len(df.columns)),
                    LAMBDA j : df.columns[j] \notin cols_to_drop_tou))

\* Lines 410-415: the winners (line 410: the mark is not blank), without
\* the dropped columns.
MakeTou(df) ==
  LET IsTou(row) == StrippedOrEmpty(row[ColumnOf(df, COL_MARK)]) # <<>>
  IN  Project(df, SelectSeq(df.rows, IsTou),
              SelectSeq(Positions(Len(df.columns)),
                        LAMBDA j : df.columns[j] \notin cols_to_drop_tou))

\* Lines 422-424: the losers (the mark is blank and the party code is not),
\* all columns.
MakeRakuFiltered(df) ==
  LET IsRaku(row) ==
        /\ StrippedOrEmpty(row[ColumnOf(df, COL_MARK)]) = <<>>
        /\ StrippedOrEmpty(row[ColumnOf(df, COL_PARTY_CODE)]) # <<>>
  IN  [columns |-> df.columns, rows |-> SelectSeq(df.rows, IsRaku)]

\* df[labels]: the positions the selection takes, label by label; a label
\* that several columns carry takes them all, in their order.
RECURSIVE LabelPositions(_, _)
LabelPositions(df, labels) ==
  IF labels = <<>> THEN <<>>
  ELSE SelectSeq(Positions(Len(df.columns)), LAMBDA j : df.columns[j] = Head(labels))
       \o LabelPositions(df, Tail(labels))

\* Lines 430-431: the columns of cols_to_keep_raku that exist, in that order.
MakeRakuOutput(df) ==
  LET present == SelectSeq(cols_to_keep_raku, LAMBDA c : ColumnsNamed(df, c) # {})
  IN  Project(df, df.rows, LabelPositions(df, present))

\* df.fillna(''): missing values become empty strings.
fillna_empty(df) ==
  [df EXCEPT !.rows = [i \in DOMAIN df.rows |->
     [j \in DOMAIN df.columns |->
        IF df.rows[i][j].t = "na" THEN StrCell(<<>>) ELSE df.rows[i][j]]]]

(***************************************************************************)
(* write_df_to_excel_with_formatting (lines 196-310)                       *)
(***************************************************************************)
\* Lines 225-233: the columns shown.
display_cols(df, combine_name_cols) ==
  SelectSeq(df.columns,
            LAMBDA c : ~(combine_name_cols /\ c \in {COL_PARTY, COL_STATUS}))

\* Line 210: workbook.add_worksheet(sheet_name) raises InvalidWorksheetName
\* for a name that is longer than 31 characters, holds one of
\* [ ] : * ? / \ or starts or ends with an apostrophe.
SheetNameRefused(sheet_name) ==
  \/ Len(sheet_name) > 31
  \/ \E i \in DOMAIN sheet_name : sheet_name[i] \in {91, 93, 58, 42, 63, 47, 92}
  \/ sheet_name # <<>> /\ (sheet_name[1] = 39 \/ sheet_name[Len(sheet_name)] = 39)

\* Line 235 evaluates display_cols + 'aaa', a list plus a str: TypeError, in
\* every call that gets there.  Both exceptions are raised inside the
\* ExcelWriter block before any cell is written (lines 238-305 are never
\* reached); the block's exit saves the workbook and line 309 catches the
\* error.  So the call leaves a file at excel_path with no header and no
\* rows, and returns normally.
write_df_to_excel_with_formatting(df, excel_path, sheet_name, combine_name_cols) ==
  [excel_path |-> excel_path,
   sheet_name |-> sheet_name,
   display_cols |-> IF SheetNameRefused(sheet_name) THEN <<>>
                    ELSE display_cols(df, combine_name_cols),
   written_header |-> <<>>,
   written_rows |-> <<>>,
   raised |-> IF SheetNameRefused(sheet_name) THEN "InvalidWorksheetName"
              ELSE "TypeError"]

(***************************************************************************)
(* The batch driver (lines 442-461)                                        *)
(***************************************************************************)
\* Directory entries: 'a.XML', 'c.txt', 'xml'.
NamePool ==
  {<<97, 46, 88, 77, 76>>,
   <<99, 46, 116, 120, 116>>,
   <<120, 109, 108>>}

\* Line 455: filename.lower().endswith('.xml').  str.lower() gives '.', 'x',
\* 'm' and 'l' for these characters and for 'X', 'M' and 'L' only, and one
\* character for each character of the name (but for U+0130, which gives
\* 'i' and U+0307), so the lowered name ends in '.xml' exactly when the last
\* four characters of the name are these.
IsXmlName(name) ==
  LET n == Len(name) IN
    /\ n >= Len(EXT_XML)
    /\ name[n - 3] = EXT_XML[1]
    /\ name[n - 2] \in {EXT_XML[2], 88}
    /\ name[n - 1] \in {EXT_XML[3], 77}
    /\ name[n] \in {EXT_XML[4], 76}
(***************************************************************************)
(* State.  pc is the position of the program: in the driver loop ("loop",  *)
(* "filter"), inside process_xml_file ("extract" .. "return"), after the   *)
(* completion message ("finished"), or dead from an exception nobody       *)
(* caught ("crashed").  The other variables are the locals of the running  *)
(* call of process_xml_file, the reports it wrote, and counters of the     *)
(* driver.                                                                 *)
(***************************************************************************)
VARIABLES
  pc,                  \* position of the program
  files_seen,          \* entries of all_files_in_folder iterated so far
  filename,            \* the entry the loop is at
  xml_file,            \* the feed saved under that name
  headline,            \* locals of process_xml_file ...
  csv_text,
  used_encoding,       \* the encoding extract_content_from_xml printed
  all_rows,
  header_row,
  header_row_index,    \* 1-based; 0: no header (the source keeps it 0-based)
  name_col_idx,        \* 1-based (the source keeps it 0-based)
  row_i,               \* the row the classification loop is at
  candidate_data_rows,
  df_full,
  df_tou,
  df_raku_filtered,
  df_raku_output,
  reports,             \* calls of write_df_to_excel_with_formatting, in order
  outcome,             \* how the call ended: "running", "skipped", "done", "error"
  raised,              \* the exception or warning that ended it
  xml_found,           \* entries that passed the .xml test
  attempted,           \* calls of process_xml_file
  failed_before,       \* an earlier document was skipped or raised
  recovered            \* a document was processed after a failed one

vars ==
  <<pc, files_seen, filename, xml_file, headline, csv_text, used_encoding,
    all_rows, header_row, header_row_index, name_col_idx, row_i,
    candidate_data_rows, df_full, df_tou, df_raku_filtered, df_raku_output,
    reports, outcome, raised, xml_found, attempted, failed_before, recovered>>

locals ==
  <<xml_file, headline, csv_text, used_encoding, all_rows, header_row,
    header_row_index, name_col_idx, row_i, candidate_data_rows, df_full,
    df_tou, df_raku_filtered, df_raku_output, reports, outcome, raised>>

counters == <<files_seen, filename, xml_found, attempted, failed_before, recovered>>

NoFile == [enc |-> "", htag |-> "", btag |-> "", hl |-> <<>>, body |-> <<>>]

\* The locals before a call of process_xml_file.
FreshLocals ==
  /\ xml_file = NoFile
  /\ headline = None
  /\ csv_text = None
  /\ used_encoding = "none"
  /\ all_rows = <<>>
  /\ header_row = <<>>
  /\ header_row_index = 0
  /\ name_col_idx = 0
  /\ row_i = 0
  /\ candidate_data_rows = <<>>
  /\ df_full = NoFrame
  /\ df_tou = NoFrame
  /\ df_raku_filtered = NoFrame
  /\ df_raku_output = NoFrame
  /\ reports = <<>>
  /\ outcome = "running"
  /\ raised = "none"

\* The locals of a call that returned are gone.
DropLocals ==
  /\ xml_file' = NoFile
  /\ headline' = None
  /\ csv_text' = None
  /\ used_encoding' = "none"
  /\ all_rows' = <<>>
  /\ header_row' = <<>>
  /\ header_row_index' = 0
  /\ name_col_idx' = 0
  /\ row_i' = 0
  /\ candidate_data_rows' = <<>>
  /\ df_full' = NoFrame
  /\ df_tou' = NoFrame
  /\ df_raku_filtered' = NoFrame
  /\ df_raku_output' = NoFrame
  /\ reports' = <<>>
  /\ outcome' = "running"
  /\ raised' = "none"

Init ==
  /\ pc = "loop"
  /\ files_seen = 0
  /\ filename = <<>>
  /\ FreshLocals
  /\ xml_found = 0
  /\ attempted = 0
  /\ failed_before = FALSE
  /\ recovered = FALSE

\* A handler that names the errors of reading the data alone:
\* except (ValueError, csv.Error).
CatchesDataErrorsOnly(kind) == kind \in {"ValueError", "Error"}

\* Line 436: except Exception catches every exception of the try block.
Catches(kind) == TRUE

\* An exception of kind raised inside the try block of process_xml_file.
Raise(kind) ==
  /\ raised' = kind
  /\ outcome' = IF Catches(kind) THEN "error" ELSE "uncaught"
  /\ pc' = IF Catches(kind) THEN "return" ELSE "crashed"

\* A warning followed by return (lines 328-329, 350-351, 370-371).
Skip(warning) ==
  /\ raised' = warning
  /\ outcome' = "skipped"
  /\ pc' = "return"

(***************************************************************************)
(* The driver loop                                                         *)
(***************************************************************************)
\* Line 453: the loop takes the next entry of the listing.
NextEntry ==
  /\ pc = "loop"
  /\ files_seen < MaxFiles
  /\ \E name \in NamePool : filename' = name
  /\ files_seen' = files_seen + 1
  /\ pc' = "filter"
  /\ UNCHANGED <<locals, xml_found, attempted, failed_before, recovered>>

\* Lines 455-459: an entry that does not end in .xml is passed over; for one
\* that does, process_xml_file is called on the file behind the name.
FilterEntry ==
  /\ pc = "filter"
  /\ IF IsXmlName(filename)
     THEN /\ \E feed \in Feeds : xml_file' = feed
          /\ xml_found' = xml_found + 1
          /\ pc' = "extract"
     ELSE /\ pc' = "loop"
          /\ UNCHANGED <<xml_file, xml_found>>
  /\ UNCHANGED <<files_seen, filename, headline, csv_text, used_encoding,
                 all_rows, header_row, header_row_index, name_col_idx, row_i,
                 candidate_data_rows, df_full, df_tou, df_raku_filtered,
                 df_raku_output, reports, outcome, raised, attempted,
                 failed_before, recovered>>

\* Line 461: the listing is exhausted; the completion message is printed.
Finish ==
  /\ pc = "loop"
  /\ pc' = "finished"
  /\ UNCHANGED <<locals, counters>>

(***************************************************************************)
(* process_xml_file                                                        *)
(***************************************************************************)
\* Lines 323-329: extract; skip the file when either part is None or empty.
Extract ==
  /\ pc = "extract"
  /\ \E got \in {extract_content_from_xml(FileBytes(xml_file))} :
       /\ headline' = got.headline
       /\ csv_text' = got.csv
       /\ used_encoding' = got.encoding
       /\ IF Falsy(got.headline) \/ Falsy(got.csv)
          THEN Skip("extract")
          ELSE /\ pc' = "header"
               /\ UNCHANGED <<outcome, raised>>
  /\ attempted' = attempted + 1
  /\ recovered' = (recovered \/ failed_before)
  /\ UNCHANGED <<files_seen, filename, xml_file, all_rows, header_row,
                 header_row_index, name_col_idx, row_i, candidate_data_rows,
                 df_full, df_tou, df_raku_filtered, df_raku_output, reports,
                 xml_found, failed_before>>

\* Lines 332-354: normalise the glyphs, parse the csv, find the header row
\* and the name column.
FindHeader ==
  /\ pc = "header"
  /\ \E got \in {csv_reader(translate(csv_text))} :
     LET rows == got.rows
         h    == FindHeaderRow(rows)
         hdr  == IF h = 0 THEN <<>> ELSE [j \in DOMAIN rows[h] |-> Strip(rows[h][j])]
     IN  IF got.raised
         THEN /\ Raise("Error")
              /\ UNCHANGED <<all_rows, header_row_index, header_row, name_col_idx,
                             row_i>>
         ELSE /\ all_rows' = rows
              /\ header_row_index' = h
              /\ header_row' = hdr
              /\ name_col_idx' = IndexOf(hdr, NAME_COL)
              /\ row_i' = h + 1
              /\ IF h = 0 THEN Skip("header")
                 ELSE IF IndexOf(hdr, NAME_COL) = 0 THEN Raise("ValueError")
                 ELSE /\ pc' = "classify"
                      /\ UNCHANGED <<outcome, raised>>
  /\ UNCHANGED <<counters, xml_file, headline, csv_text, used_encoding,
                 candidate_data_rows, df_full, df_tou, df_raku_filtered,
                 df_raku_output, reports>>

\* Lines 357-367, one row of the loop.  Lines 362 and 364 index the row
\* before line 366 looks at is_valid_row: row[name_col_idx] and row[1] raise
\* IndexError on a row that is too short.
ClassifyRow ==
  /\ pc = "classify"
  /\ row_i <= Len(all_rows)
  /\ IF Len(all_rows[row_i]) < name_col_idx \/ Len(all_rows[row_i]) < 2
     THEN /\ Raise("IndexError")
          /\ UNCHANGED <<row_i, candidate_data_rows>>
     ELSE /\ candidate_data_rows' =
               IF IsCandidate(all_rows[row_i], name_col_idx)
               THEN Append(candidate_data_rows, all_rows[row_i])
               ELSE candidate_data_rows
          /\ row_i' = row_i + 1
          /\ UNCHANGED <<pc, outcome, raised>>
  /\ UNCHANGED <<counters, xml_file, headline, csv_text, used_encoding, all_rows,
                 header_row, header_row_index, name_col_idx, df_full, df_tou,
                 df_raku_filtered, df_raku_output, reports>>

\* Lines 369-374: no candidate: warn and return; else build the frame.
\* pd.DataFrame(rows, columns=header) raises ValueError ("n columns passed,
\* passed data had m columns") unless the widest row has as many fields as
\* the header.
BuildFrame ==
  /\ pc = "classify"
  /\ row_i > Len(all_rows)
  /\ IF candidate_data_rows = <<>>
     THEN /\ Skip("nodata")
          /\ UNCHANGED df_full
     ELSE IF MaxOf({Len(candidate_data_rows[i]) : i \in DOMAIN candidate_data_rows})
               # Len(header_row)
     THEN /\ Raise("ValueError")
          /\ UNCHANGED df_full
     ELSE /\ df_full' = DataFrame(candidate_data_rows, header_row)
          /\ pc' = "typing"
          /\ UNCHANGED <<outcome, raised>>
  /\ UNCHANGED <<counters, xml_file, headline, csv_text, used_encoding, all_rows,
                 header_row, header_row_index, name_col_idx, row_i,
                 candidate_data_rows, df_tou, df_raku_filtered, df_raku_output,
                 reports>>

\* Lines 378-393: the numeric columns become integers, one after the other;
\* an error ends the loop and leaves the columns converted before it.
Typing ==
  /\ pc = "typing"
  /\ \E build \in Builds : df_full' = ConvertNumeric(df_full, build)
  /\ IF ConvertError(df_full) # "none"
     THEN Raise(ConvertError(df_full))
     ELSE /\ pc' = "full"
          /\ UNCHANGED <<outcome, raised>>
  /\ UNCHANGED <<counters, xml_file, headline, csv_text, used_encoding, all_rows,
                 header_row, header_row_index, name_col_idx, row_i,
                 candidate_data_rows, df_tou, df_raku_filtered, df_raku_output,
                 reports>>

\* Lines 396-407: the full report, its sheet named headline[:31]; the winner
\* and loser reports follow only when the headline holds the marker.
WriteFull ==
  /\ pc = "full"
  /\ reports' = Append(reports,
       write_df_to_excel_with_formatting(
         fillna_empty(df_full), sanitize_filename(headline) \o SUFFIX_XLSX,
         IF Len(headline) <= 31 THEN headline ELSE SubSeq(headline, 1, 31), TRUE))
  /\ IF Contains(headline, MARKER)
     THEN /\ pc' = "tou"
          /\ UNCHANGED outcome
     ELSE /\ pc' = "return"
          /\ outcome' = "done"
  /\ UNCHANGED <<counters, xml_file, headline, csv_text, used_encoding, all_rows,
                 header_row, header_row_index, name_col_idx, row_i,
                 candidate_data_rows, df_full, df_tou, df_raku_filtered,
                 df_raku_output, raised>>

\* Lines 410-418: the winner report.
WriteTou ==
  /\ pc = "tou"
  /\ IF SeriesError(df_full, COL_MARK) # "none"
     THEN /\ Raise(IF SeriesError(df_full, COL_MARK) = "KeyError"
                   THEN "KeyError" ELSE "AttributeError")
          /\ UNCHANGED <<df_tou, reports>>
     ELSE /\ df_tou' = MakeTou(df_full)
          /\ reports' = Append(reports,
               write_df_to_excel_with_formatting(
                 fillna_empty(MakeTou(df_full)),
                 sanitize_filename(headline) \o SUFFIX_TOU \o SUFFIX_XLSX,
                 SHEET_TOU, TRUE))
          /\ pc' = "raku"
          /\ UNCHANGED <<outcome, raised>>
  /\ UNCHANGED <<counters, xml_file, headline, csv_text, used_encoding, all_rows,
                 header_row, header_row_index, name_col_idx, row_i,
                 candidate_data_rows, df_full, df_raku_filtered, df_raku_output>>

\* Lines 422-434: the loser report.
WriteRaku ==
  /\ pc = "raku"
  /\ IF SeriesError(df_full, COL_PARTY_CODE) # "none"
     THEN /\ Raise(IF SeriesError(df_full, COL_PARTY_CODE) = "KeyError"
                   THEN "KeyError" ELSE "AttributeError")
          /\ UNCHANGED <<df_raku_filtered, df_raku_output, reports>>
     ELSE /\ df_raku_filtered' = MakeRakuFiltered(df_full)
          /\ df_raku_output' = MakeRakuOutput(MakeRakuFiltered(df_full))
          /\ reports' = Append(reports,
               write_df_to_excel_with_formatting(
                 fillna_empty(MakeRakuOutput(MakeRakuFiltered(df_full))),
                 sanitize_filename(headline) \o SUFFIX_RAKU \o SUFFIX_XLSX,
                 SHEET_RAKU, FALSE))
          /\ pc' = "return"
          /\ outcome' = "done"
          /\ UNCHANGED raised
  /\ UNCHANGED <<counters, xml_file, headline, csv_text, used_encoding, all_rows,
                 header_row, header_row_index, name_col_idx, row_i,
                 candidate_data_rows, df_full, df_tou>>

\* process_xml_file returns to the loop; its locals are gone.
Return ==
  /\ pc = "return"
  /\ pc' = "loop"
  /\ DropLocals
  /\ failed_before' = (failed_before \/ outcome # "done")
  /\ UNCHANGED <<files_seen, filename, xml_found, attempted, recovered>>

Next ==
  \/ NextEntry
  \/ FilterEntry
  \/ Finish
  \/ Extract
  \/ FindHeader
  \/ ClassifyRow
  \/ BuildFrame
  \/ Typing
  \/ WriteFull
  \/ WriteTou
  \/ WriteRaku
  \/ Return

Spec == Init /\ [][Next]_vars

\* A step of the running program, one that has not ended, to any of the
\* program's positions: Next is enabled in every state in which the program
\* has not ended, and each of its steps changes pc or row_i (the loop over
\* the rows stays at "classify" and moves row_i).
Proceeds ==
  /\ pc \notin {"finished", "crashed"}
  /\ pc' \in {"loop", "filter", "extract", "header", "classify", "typing", "full",
              "tou", "raku", "return", "finished", "crashed"}
  /\ row_i' \in 0..(Len(csv_text) + 1)

\* The interpreter runs the program on: while the program has not ended, it
\* takes its next step.  This is weak fairness of Next, stated on the two
\* variables its steps change.
LiveSpec == Spec /\ WF_<<pc, row_i>>(Proceeds)
(***************************************************************************)
(* The claims.  The definitions below restate what each claim says, in the *)
(* claim's own terms, over the state the program reaches.                  *)
(***************************************************************************)
\* The running call of process_xml_file is past the extraction.
Extracted == pc \in {"header", "classify", "typing", "full", "tou", "raku", "return"}

\* The running call found its header row and its name column.
HeaderFound == header_row_index > 0 /\ name_col_idx > 0

\* The classification loop of the running call went through every row and
\* kept at least one.
Classified ==
  HeaderFound /\ row_i > Len(all_rows) /\ candidate_data_rows # <<>>

\* The rows after the header row.
RowsAfterHeader == (header_row_index + 1)..Len(all_rows)

\* A row with fewer fields than the name column needs, or fewer than two.
TooFewFields(row) == Len(row) < name_col_idx \/ Len(row) < 2

\* A cell is blank: missing, or nothing but white space.
BlankCell(cell) == cell.t # "str" \/ Strip(cell.s) = <<>>

\* The file names of the reports written so far, in order.
ReportPaths == [k \in DOMAIN reports |-> reports[k].excel_path]

----------------------------------------------------------------------------
\* C1: a row after the header with too few fields is passed over without an
\* error: the loop goes on to the next row, the candidate set stays as it is
\* and nothing is raised.
C1_ShortRowsSilentlyExcluded ==
  [][(/\ pc = "classify"
      /\ row_i <= Len(all_rows)
      /\ TooFewFields(all_rows[row_i]))
     => (/\ pc' = "classify"
         /\ row_i' = row_i + 1
         /\ candidate_data_rows' = candidate_data_rows
         /\ raised' = "none")]_vars

----------------------------------------------------------------------------
\* The columns the claim calls numeric: the rank and every column that is not
\* in the text list.
NumericColumns(df) ==
  {j \in DOMAIN df.columns :
     df.columns[j] = SENTINEL \/ df.columns[j] \notin all_cols_except_text}

\* The digits of a string of digits and thousands separators, 0 when the
\* string holds anything else or no digit: "1,234" is 1234, "" is 0.
SeparatedDigitsValue(s) ==
  SignedInt(FALSE, NatOfDigits([i \in DOMAIN SelectSeq(s, IsAsciiDigit) |->
                                  SelectSeq(s, IsAsciiDigit)[i] - 48],
                               1, Len(SelectSeq(s, IsAsciiDigit))))

\* The integer the claim gives a cell.
ClaimedInt(cell) ==
  IF cell.t # "str" THEN SignedInt(FALSE, <<>>)
  ELSE LET s == Strip(cell.s) IN
       IF s # <<>> /\ \A i \in DOMAIN s : IsAsciiDigit(s[i]) \/ s[i] = 44
       THEN SeparatedDigitsValue(s)
       ELSE SignedInt(FALSE, <<>>)

\* C2: once the columns are typed, every cell of every numeric column holds
\* the integer of its text with the thousands separators taken out, 0 for a
\* blank or a non-numeric text; and the typing never ends the document.
C2_NumericCoercion ==
  /\ (pc \in {"full", "tou", "raku"} \/ (pc = "return" /\ reports # <<>>)) =>
       \A i \in DOMAIN df_full.rows : \A j \in NumericColumns(df_full) :
          df_full.rows[i][j] =
            IntCell(ClaimedInt(DataFrame(candidate_data_rows, header_row).rows[i][j]))
  /\ ~(pc = "return" /\ df_full # NoFrame /\ reports = <<>>)

----------------------------------------------------------------------------
\* C3: a document that got through extraction, header detection and
\* classification with at least one candidate row has its full report: the
\* file is written first, with the header columns and one data row for each
\* candidate row.
C3_FullReportComplete ==
  (pc = "return" /\ Classified) =>
     /\ reports # <<>>
     /\ reports[1].excel_path = sanitize_filename(headline) \o SUFFIX_XLSX
     /\ reports[1].written_header =
          SelectSeq(header_row, LAMBDA c : c \notin {COL_PARTY, COL_STATUS})
     /\ Len(reports[1].written_rows) = Len(candidate_data_rows)

----------------------------------------------------------------------------
\* C4: a file saved in Shift_JIS or UTF-16 that holds a headline tag and a
\* body tag gives back the headline and the body as they were written, and
\* the header row of the body is then found.
C4_EncodingsHandled ==
  (/\ Extracted
   /\ xml_file.enc \in {"shift_jis", "utf-16"}
   /\ xml_file.htag # "none"
   /\ xml_file.btag # "none"
   /\ xml_file.hl = HL_A
   /\ xml_file.body = B_OK)
  => /\ headline = HL_A
     /\ csv_text = B_OK
     /\ (pc # "header" => header_row_index > 0)

----------------------------------------------------------------------------
\* C5: the driver ends at its completion message, having called
\* process_xml_file for every entry that passed the .xml test.
C5_BatchCompletes == <>(pc = "finished" /\ attempted = xml_found)

\* A run that ended after a document failed and a later one was processed.
C5_FinishedAfterFailure ==
  pc = "finished" /\ failed_before /\ recovered /\ attempted = MaxFiles

----------------------------------------------------------------------------
\* C6: the extraction gives both parts or neither; a file without a headline
\* tag or without a body tag gives neither; and a document with a part
\* missing or empty is skipped and writes no report.  A UTF-8 file with both
\* tags gives both parts.
C6_ExtractionAllOrNothing ==
  Extracted =>
    /\ (headline = None) <=> (csv_text = None)
    /\ (xml_file.htag = "none" \/ xml_file.btag = "none")
         => (headline = None /\ csv_text = None)
    /\ (\/ xml_file.htag = "none"
        \/ xml_file.btag = "none"
        \/ xml_file.hl = HL_BLANK
        \/ xml_file.body = JUNK_OPEN)
         => (pc = "return" /\ outcome = "skipped" /\ reports = <<>>)
    /\ (xml_file.enc = "utf-8" /\ xml_file.htag # "none" /\ xml_file.btag # "none")
         => (headline # None /\ csv_text # None)

\* A file with a headline tag and no body tag was skipped.
C6_HeadlineOnlySkipped ==
  /\ pc = "return"
  /\ xml_file.htag = "HeadLine"
  /\ xml_file.btag = "none"
  /\ headline = None
  /\ outcome = "skipped"

----------------------------------------------------------------------------
\* The name field of a row is nothing but white space.
NameBlank(row) == Strip(row[name_col_idx]) = <<>>

\* The text is exactly three decimal digits.
ThreeDigits(s) == Len(s) = 3 /\ \A i \in DOMAIN s : IsAsciiDigit(s[i])

\* The text begins with four decimal digits (more digits or other text may
\* follow).
BeginsWithFourDigits(s) == Len(s) >= 4 /\ \A i \in 1..4 : IsAsciiDigit(s[i])

\* C7: when the call is over, of the rows after the header, none with a
\* blank name and none with a three-digit code is a candidate, and every
\* one with a code of four or more digits and a name is.
C7_Discriminator ==
  (pc = "return" /\ HeaderFound) =>
    \A k \in RowsAfterHeader :
      LET row == all_rows[k] IN
        /\ (Len(row) >= name_col_idx /\ NameBlank(row))
             => row \notin Range(candidate_data_rows)
        /\ (Len(row) >= 2 /\ ThreeDigits(Strip(row[2])))
             => row \notin Range(candidate_data_rows)
        /\ (/\ Len(row) >= name_col_idx
            /\ Len(row) >= 2
            /\ BeginsWithFourDigits(Strip(row[2]))
            /\ ~NameBlank(row))
             => row \in Range(candidate_data_rows)

----------------------------------------------------------------------------
\* The rows of the full record set with a mark (the winners) and those with
\* no mark and a party code (the losers), by position.
WinnerRows ==
  SelectSeq(Positions(Len(df_full.rows)),
            LAMBDA i : ~BlankCell(df_full.rows[i][ColumnOf(df_full, COL_MARK)]))

LoserRows ==
  SelectSeq(Positions(Len(df_full.rows)),
            LAMBDA i : /\ BlankCell(df_full.rows[i][ColumnOf(df_full, COL_MARK)])
                       /\ ~BlankCell(df_full.rows[i][ColumnOf(df_full, COL_PARTY_CODE)]))

\* The columns of the full record set the winners keep, by position.
KeptOfWinners ==
  SelectSeq(Positions(Len(df_full.columns)),
            LAMBDA j : df_full.columns[j] \notin cols_to_drop_tou)

\* C8: the winners are exactly the rows with a mark, in order, each with the
\* cells of its row; the losers are exactly the rows with no mark and a party
\* code; no row is both; and the full record set still has every column and
\* every row after the winners were made.
C8_WinnersLosersExact ==
  /\ df_tou # NoFrame =>
       /\ Len(df_tou.rows) = Len(WinnerRows)
       /\ df_tou.columns = [j \in DOMAIN KeptOfWinners |-> df_full.columns[KeptOfWinners[j]]]
       /\ \A k \in DOMAIN df_tou.rows : \A j \in DOMAIN df_tou.columns :
            df_tou.rows[k][j] = df_full.rows[WinnerRows[k]][KeptOfWinners[j]]
       /\ df_full.columns = header_row
       /\ Len(df_full.rows) = Len(candidate_data_rows)
  /\ df_raku_filtered # NoFrame =>
       /\ df_raku_filtered.rows = [k \in DOMAIN LoserRows |-> df_full.rows[LoserRows[k]]]
       /\ df_raku_filtered.columns = header_row
       /\ Range(WinnerRows) \cap Range(LoserRows) = {}

\* A document ended with a winner and a loser.
C8_WinnerAndLoser ==
  /\ pc = "return"
  /\ outcome = "done"
  /\ df_tou # NoFrame /\ Len(df_tou.rows) = 1
  /\ df_raku_filtered # NoFrame /\ Len(df_raku_filtered.rows) = 1
  /\ Len(df_full.rows) = 2

----------------------------------------------------------------------------
\* The rows whose first field, trimmed, is the sentinel.
SentinelRows ==
  {k \in DOMAIN all_rows : all_rows[k] # <<>> /\ Strip(all_rows[k][1]) = SENTINEL}

\* The running call read the rows of its csv body and looked for the header
\* among them: it is past line 347, or it returned from there on.
HeaderScanned ==
  \/ pc \in {"classify", "typing", "full", "tou", "raku"}
  \/ pc = "return" /\ raised \notin {"extract", "Error"}

\* The csv reader refused the body (csv.Error at line 337): the call was
\* over before it looked for a header.
RowsRefused == pc = "return" /\ raised = "Error"

\* C9: the header is the first row that starts with the sentinel, with its
\* fields trimmed, whatever rows match later; the rows after it are the data;
\* without such a row the document is skipped and writes no report.  A body
\* whose rows cannot be read has no header either and writes no report.
C9_FirstHeaderWins ==
  /\ HeaderScanned =>
       IF SentinelRows = {}
       THEN /\ header_row_index = 0
            /\ pc = "return" /\ outcome = "skipped" /\ reports = <<>>
       ELSE /\ header_row_index \in SentinelRows
            /\ \A k \in SentinelRows : header_row_index <= k
            /\ header_row = [j \in DOMAIN all_rows[header_row_index] |->
                               Strip(all_rows[header_row_index][j])]
            /\ row_i > header_row_index
            /\ \A r \in Range(candidate_data_rows) :
                 \E k \in RowsAfterHeader : all_rows[k] = r
  /\ RowsRefused =>
       /\ all_rows = <<>> /\ header_row_index = 0 /\ header_row = <<>>
       /\ candidate_data_rows = <<>> /\ reports = <<>>

\* Two rows start with the sentinel; the first is the header and the loop
\* went over the second as data.
C9_LaterMatchIsData ==
  /\ HeaderScanned
  /\ Cardinality(SentinelRows) = 2
  /\ header_row_index = 1
  /\ row_i > Len(all_rows)
  /\ candidate_data_rows # <<>>

----------------------------------------------------------------------------
\* C10: when the call is over for a classified document, the report files
\* are the full report alone if the headline lacks the marker, and the full,
\* winner and loser reports, named from the same base, if it holds it.
C10_ReportGating ==
  (pc = "return" /\ Classified) =>
     ReportPaths =
       IF Contains(headline, MARKER)
       THEN <<sanitize_filename(headline) \o SUFFIX_XLSX,
              sanitize_filename(headline) \o SUFFIX_TOU \o SUFFIX_XLSX,
              sanitize_filename(headline) \o SUFFIX_RAKU \o SUFFIX_XLSX>>
       ELSE <<sanitize_filename(headline) \o SUFFIX_XLSX>>
=============================================================================
